---- MODULE Spec2Model ----
(***************************************************************************)
(* Model of the workflow orchestration engine (src/engine/workflow.py):    *)
(* execution-order resolution, reference resolution, the dispatcher and    *)
(* the loop controller (sequential and concurrent).                        *)
(*                                                                         *)
(* Python values are tagged records [t, v].  A Python str is a sequence of *)
(* symbols: the characters "$", ".", "[", "]" and the digits are single    *)
(* symbols, and a word without any of those characters ("items",           *)
(* "result", "B") is one indivisible symbol.  The code only ever tests     *)
(* those characters and compares whole path parts with mapping keys, so    *)
(* equality of symbol sequences is equality of the strings.                *)
(***************************************************************************)
EXTENDS Integers, Sequences, FiniteSets, TLC

VARIABLES
    config,          \* the Workflow Definition: node declarations and connections
    impl,            \* node implementations: node id -> the output sequences execute() may produce
    initial_inputs,  \* the caller-supplied initial inputs of the run
    orderResult,     \* what _get_execution_order returned (or the fault it raised)
    pc,              \* position of the flow of control
    refIn,           \* a reference-resolution request: path, run-time state, scope id
    refOut,          \* what each resolver returned for refIn
    workflow_state,  \* run-time state: state key -> last output record
    events,          \* the outward stream of Execution Events, oldest first
    pos,             \* index into the execution order of the node being dispatched
    executed_nodes,  \* ids marked Done
    cur,             \* the node invocation in progress: id, outputs so far, last_output
    iteration,       \* the loop controller's iteration counter
    sub,             \* index of the sequential loop's current sub-node
    tasks,           \* concurrent sub-node tasks: <<iteration, index>> -> task
    pending,         \* the drain loop's pending set
    queue,           \* the iteration's asyncio.Queue
    selected_nodes,  \* the sub-node list a switch selected
    invoked,         \* history: node id -> the execute(inputs) calls issued to it, oldest first
    other,           \* the frame of a second run of the same engine, suspended
    evaluated        \* history: evaluations of the condition of the loop being executed

orderVars == <<orderResult>>
refVars == <<refIn, refOut>>
runVars == <<impl, initial_inputs, workflow_state, events, pos, executed_nodes, cur,
             iteration, sub, tasks, pending, queue, selected_nodes, invoked>>
vars == <<config, pc, orderVars, refVars, runVars, other, evaluated>>

(***************************************************************************)
(* Bounds of the model.                                                    *)
(***************************************************************************)
MaxConns == 3        \* declared connections in the order resolver's inputs
MaxSegs == 2         \* path segments after the source key in a resolution request
MaxIter == 2         \* largest max_iterations a loop declares
MaxEmit == 2         \* most records a streaming node emits in one invocation

(***************************************************************************)
(* Python values.                                                          *)
(***************************************************************************)
None == [t |-> "none", v |-> 0]
PyInt(n) == [t |-> "int", v |-> n]
PyBool(b) == [t |-> "bool", v |-> b]
PyStr(s) == [t |-> "str", v |-> s]
PyList(q) == [t |-> "list", v |-> q]
PyDict(f) == [t |-> "dict", v |-> f]

IsDict(x) == x.t = "dict"
IsList(x) == x.t = "list"
IsStr(x) == x.t = "str"

\* dict.get(key) with the default None
DictGet(d, key) == IF key \in DOMAIN d.v THEN d.v[key] ELSE None

\* a one-symbol string
W(sym) == <<sym>>

(***************************************************************************)
(* Execution Order Resolver: WorkflowEngine._get_execution_order.          *)
(***************************************************************************)
Range(q) == {q[i] : i \in 1..Len(q)}

SeqFilter(q, Keep(_)) ==
    LET F[i \in 0..Len(q)] ==
            IF i = 0 THEN <<>>
            ELSE IF Keep(q[i]) THEN Append(F[i-1], q[i]) ELSE F[i-1]
    IN F[Len(q)]

\* in_degree / graph after the loop over self.connections (lines 570-578).
\* Only a connection whose source is declared is recorded; its target is
\* counted whether declared or not (in_degree.get(target, 0) + 1).
BuildGraph(nodeIds, conns) ==
    LET ids == Range(nodeIds)
        B[i \in 0..Len(conns)] ==
            IF i = 0
            THEN [in_degree |-> [n \in ids |-> 0], graph |-> [n \in ids |-> <<>>]]
            ELSE LET prev == B[i-1]
                     source == conns[i].from
                     target == conns[i].to
                 IN IF source \in DOMAIN prev.graph
                    THEN [in_degree |->
                              [n \in DOMAIN prev.in_degree \cup {target} |->
                                  IF n = target
                                  THEN (IF n \in DOMAIN prev.in_degree
                                        THEN prev.in_degree[n] ELSE 0) + 1
                                  ELSE prev.in_degree[n]],
                          graph |-> [prev.graph EXCEPT ![source] = Append(@, target)]]
                    ELSE prev
    IN B[Len(conns)]

\* the inner loop "for neighbor in graph[node_id]" (lines 587-590)
RECURSIVE VisitNeighbors(_, _, _)
VisitNeighbors(neighbors, in_degree, kahn_queue) ==
    IF neighbors = <<>> THEN [in_degree |-> in_degree, kahn_queue |-> kahn_queue]
    ELSE LET neighbor == Head(neighbors)
             deg == in_degree[neighbor] - 1
         IN VisitNeighbors(Tail(neighbors),
                           [in_degree EXCEPT ![neighbor] = deg],
                           IF deg = 0 THEN Append(kahn_queue, neighbor) ELSE kahn_queue)

\* the loop "while queue" (lines 584-590); graph[node_id] raises KeyError
\* when the popped id has no adjacency entry
RECURSIVE KahnLoop(_, _, _, _)
KahnLoop(graph, in_degree, kahn_queue, order) ==
    IF kahn_queue = <<>> THEN [raised |-> "none", order |-> order]
    ELSE LET node_id == Head(kahn_queue)
             order2 == Append(order, node_id)
         IN IF node_id \notin DOMAIN graph
            THEN [raised |-> "KeyError", order |-> order2]
            ELSE LET r == VisitNeighbors(graph[node_id], in_degree, Tail(kahn_queue))
                 IN KahnLoop(graph, r.in_degree, r.kahn_queue, order2)

\* node_ids = [n["id"] for n in self.config["nodes"]] (line 564)
NodeIds(cfg) == [i \in 1..Len(cfg.nodes) |-> cfg.nodes[i].id]

Kahn(nodeIds, conns) ==
    LET g == BuildGraph(nodeIds, conns)
        kahn_queue == SeqFilter(nodeIds, LAMBDA nid : g.in_degree[nid] = 0)
    IN KahnLoop(g.graph, g.in_degree, kahn_queue, <<>>)

\* mutant: the produced order is returned even when it is shorter than the
\* node list (the cycle fallback is missing)
GetExecutionOrder_NoFallback(nodeIds, conns) ==
    IF conns = <<>> THEN [raised |-> "none", order |-> nodeIds]
    ELSE Kahn(nodeIds, conns)

GetExecutionOrder(nodeIds, conns) ==
    IF conns = <<>> THEN [raised |-> "none", order |-> nodeIds]
    ELSE LET k == Kahn(nodeIds, conns)
         IN IF k.raised # "none" THEN k
            ELSE IF Len(k.order) = Len(nodeIds) THEN k
            ELSE [raised |-> "none", order |-> nodeIds]

(***************************************************************************)
(* Python str operations on symbol sequences.                              *)
(***************************************************************************)
Contains(s, sym) == \E k \in 1..Len(s) : s[k] = sym

\* str.index(sym) + 1
FirstIndex(s, sym) == CHOOSE k \in 1..Len(s) : s[k] = sym /\ \A j \in 1..(k-1) : s[j] # sym

\* str.split(sep) for a one-character separator
RECURSIVE Split(_, _)
Split(s, sep) ==
    IF ~Contains(s, sep) THEN <<s>>
    ELSE LET k == FirstIndex(s, sep)
         IN <<SubSeq(s, 1, k-1)>> \o Split(SubSeq(s, k+1, Len(s)), sep)

\* Characters for which str.isdigit() is True.  int() accepts the decimal
\* digits only: "sup2" is U+00B2 (SUPERSCRIPT TWO), a digit that is not
\* decimal, so isdigit() is True and int() raises ValueError.
DecimalDigits == {"0", "1", "2", "5"}
OtherDigits == {"sup2"}

DigitValue(sym) == CASE sym = "0" -> 0 [] sym = "1" -> 1 [] sym = "2" -> 2 [] sym = "5" -> 5

\* str.isdigit()
IsDigit(s) == s # <<>> /\ \A k \in 1..Len(s) : s[k] \in DecimalDigits \cup OtherDigits

RECURSIVE DecimalValue(_)
DecimalValue(s) ==
    IF s = <<>> THEN 0
    ELSE 10 * DecimalValue(SubSeq(s, 1, Len(s) - 1)) + DigitValue(s[Len(s)])

\* int(s)
ParseInt(s) ==
    IF s # <<>> /\ \A k \in 1..Len(s) : s[k] \in DecimalDigits
    THEN [raised |-> "none", value |-> DecimalValue(s)]
    ELSE [raised |-> "ValueError", value |-> 0]

\* isinstance(x, str) and x.startswith("$")
IsRef(x) == IsStr(x) /\ x.v # <<>> /\ x.v[1] = "$"

\* x[1:].split(".")
PathParts(path) == Split(Tail(path), ".")

\* f"{parent_id}.{child}"
Scoped(parent_id, child) == parent_id \o <<".">> \o child

(***************************************************************************)
(* Reference Resolver.  A resolver yields a value, or Raise(e) where the   *)
(* Python code raises the exception e.                                     *)
(***************************************************************************)
Raise(e) == [t |-> "raise", v |-> e]
IsRaise(x) == x.t = "raise"

\* mutant: 'output' is preferred over 'result'
Bare_PreferOutput(value) ==
    IF W("output") \in DOMAIN value.v THEN value.v[W("output")]
    ELSE IF W("result") \in DOMAIN value.v THEN value.v[W("result")]
    ELSE value

\* the bare-reference convention (lines 82-85; the same function is written
\* value.get("result", value.get("output", value)) at lines 117, 147, 454, 558)
Bare(value) ==
    IF W("result") \in DOMAIN value.v THEN value.v[W("result")]
    ELSE IF W("output") \in DOMAIN value.v THEN value.v[W("output")]
    ELSE value

\* The path walk with key[index] segments: lines 60-79 when stopOnNonDict
\* (a plain segment on a non-mapping ends the walk), lines 101-115 and
\* 131-145 otherwise (the walk goes on with None).
RECURSIVE WalkIndexed(_, _, _)
WalkIndexed(value, parts, stopOnNonDict) ==
    IF parts = <<>> THEN value
    ELSE LET part == Head(parts)
         IN IF Contains(part, "[") /\ Contains(part, "]")
            THEN LET i == FirstIndex(part, "[")
                     j == FirstIndex(part, "]")
                     key_part == SubSeq(part, 1, i - 1)
                     index_part == SubSeq(part, i + 1, j - 1)
                     narrowed == IF key_part # <<>>
                                 THEN (IF IsDict(value) THEN DictGet(value, key_part) ELSE None)
                                 ELSE value
                 IN IF IsList(narrowed) /\ IsDigit(index_part)
                    THEN LET idx == ParseInt(index_part)
                         IN IF idx.raised # "none" THEN Raise(idx.raised)
                            ELSE IF idx.value < Len(narrowed.v)
                            THEN WalkIndexed(narrowed.v[idx.value + 1], Tail(parts), stopOnNonDict)
                            ELSE None
                    ELSE WalkIndexed(narrowed, Tail(parts), stopOnNonDict)
            ELSE IF IsDict(value)
                 THEN WalkIndexed(DictGet(value, part), Tail(parts), stopOnNonDict)
                 ELSE IF stopOnNonDict THEN None
                 ELSE WalkIndexed(None, Tail(parts), stopOnNonDict)

\* The path walk without index segments (lines 432-437, 451-452, 552-556):
\* every part is a mapping key.
RECURSIVE WalkKeys(_, _)
WalkKeys(value, parts) ==
    IF parts = <<>> THEN value
    ELSE IF IsDict(value) THEN WalkKeys(DictGet(value, Head(parts)), Tail(parts))
    ELSE None

\* mutant: a bare reference yields the whole record
ResolveRef_NoConvention(path, state) ==
    LET path_parts == PathParts(path)
        source_node == path_parts[1]
    IN IF source_node \in DOMAIN state
       THEN LET value == state[source_node]
            IN IF IsDict(value) /\ Len(path_parts) > 1
               THEN WalkIndexed(value, Tail(path_parts), TRUE)
               ELSE value
       ELSE None

\* mutant: the walk does not know key[index] segments
ResolveRef_NoIndex(path, state) ==
    LET path_parts == PathParts(path)
        source_node == path_parts[1]
    IN IF source_node \in DOMAIN state
       THEN LET value == state[source_node]
            IN IF IsDict(value)
               THEN IF Len(path_parts) > 1
                    THEN WalkKeys(value, Tail(path_parts))
                    ELSE Bare(value)
               ELSE value
       ELSE None

\* _resolve_inputs, an input that is a reference string (lines 50-89)
ResolveRef(path, state) ==
    LET path_parts == PathParts(path)
        source_node == path_parts[1]
    IN IF source_node \in DOMAIN state
       THEN LET value == state[source_node]
            IN IF IsDict(value)
               THEN IF Len(path_parts) > 1
                    THEN WalkIndexed(value, Tail(path_parts), TRUE)
                    ELSE Bare(value)
               ELSE value
       ELSE None

\* _resolve_inputs, a reference string inside a mapping input or inside a
\* list of a mapping input (lines 95-120 and 125-150)
ResolveNestedRef(path, state) ==
    LET path_parts == PathParts(path)
        source_node == path_parts[1]
    IN IF source_node \in DOMAIN state
       THEN LET val == state[source_node]
            IN IF IsDict(val) /\ Len(path_parts) > 1
               THEN WalkIndexed(val, Tail(path_parts), FALSE)
               ELSE IF IsDict(val) THEN Bare(val)
               ELSE val
       ELSE None

\* mutant: the parent's scope is tried before the global scope
ResolveSubRef_ScopeFirst(path, state, parent_id) ==
    LET path_parts == PathParts(path)
        source_node == path_parts[1]
        full_source == Scoped(parent_id, source_node)
        Found(value) ==
            IF IsDict(value)
            THEN IF Len(path_parts) > 1 THEN WalkKeys(value, Tail(path_parts))
                 ELSE Bare(value)
            ELSE value
    IN IF full_source \in DOMAIN state THEN Found(state[full_source])
       ELSE IF source_node \in DOMAIN state THEN Found(state[source_node])
       ELSE None

\* _resolve_inputs_for_subnode, an input that is a reference string (lines 424-457)
ResolveSubRef(path, state, parent_id) ==
    LET path_parts == PathParts(path)
        source_node == path_parts[1]
        full_source == Scoped(parent_id, source_node)
        Found(value) ==
            IF IsDict(value)
            THEN IF Len(path_parts) > 1 THEN WalkKeys(value, Tail(path_parts))
                 ELSE Bare(value)
            ELSE value
    IN IF source_node \in DOMAIN state THEN Found(state[source_node])
       ELSE IF full_source \in DOMAIN state THEN Found(state[full_source])
       ELSE None

\* _get_value (lines 528-560); context_id is None or a str value
GetValue(path, state, context_id) ==
    IF ~IsRef(path) THEN path
    ELSE LET path_parts == PathParts(path.v)
             source_node == path_parts[1]
             Found(value) ==
                 IF IsDict(value)
                 THEN IF Len(path_parts) > 1 THEN WalkKeys(value, Tail(path_parts))
                      ELSE Bare(value)
                 ELSE value
         IN IF source_node \in DOMAIN state THEN Found(state[source_node])
            ELSE IF /\ IsStr(context_id)
                    /\ context_id.v # <<>>
                    /\ Scoped(context_id.v, source_node) \in DOMAIN state
            THEN Found(state[Scoped(context_id.v, source_node)])
            ELSE None

\* one member of a mapping input (lines 93-156)
ResolveMember(v, state) ==
    IF IsRef(v) THEN ResolveNestedRef(v.v, state)
    ELSE IF IsList(v)
    THEN PyList([i \in 1..Len(v.v) |->
                    IF IsRef(v.v[i]) THEN ResolveNestedRef(v.v[i].v, state)
                    ELSE v.v[i]])
    ELSE v

\* one declared input of a top-level node (lines 48-160)
ResolveInput(input_source, state) ==
    IF IsRef(input_source) THEN ResolveRef(input_source.v, state)
    ELSE IF IsDict(input_source)
    THEN PyDict([k \in DOMAIN input_source.v |-> ResolveMember(input_source.v[k], state)])
    ELSE input_source

\* a fault raised anywhere while the value was being built
RaisedIn(x) ==
    \/ IsRaise(x)
    \/ IsDict(x) /\ \E k \in DOMAIN x.v :
           \/ IsRaise(x.v[k])
           \/ IsList(x.v[k]) /\ \E i \in 1..Len(x.v[k].v) : IsRaise(x.v[k].v[i])

\* _resolve_inputs (lines 40-162): the inputs mapping of a node, or the fault
ResolveInputs(inputs, state) ==
    LET resolved == [k \in DOMAIN inputs |-> ResolveInput(inputs[k], state)]
    IN IF \E k \in DOMAIN inputs : RaisedIn(resolved[k])
       THEN [raised |-> "ValueError", inputs |-> <<>>]
       ELSE [raised |-> "none", inputs |-> resolved]

\* _resolve_inputs_for_subnode (lines 412-462)
ResolveInputsForSubnode(inputs, state, parent_id) ==
    [raised |-> "none",
     inputs |-> [k \in DOMAIN inputs |->
                    IF IsRef(inputs[k]) THEN ResolveSubRef(inputs[k].v, state, parent_id)
                    ELSE inputs[k]]]

(***************************************************************************)
(* Condition Evaluator.                                                    *)
(***************************************************************************)
\* bool(x) / "if x:"
Truthy(x) ==
    CASE x.t = "none" -> FALSE
      [] x.t = "bool" -> x.v
      [] x.t = "int" -> x.v # 0
      [] x.t \in {"str", "list"} -> x.v # <<>>
      [] x.t = "dict" -> DOMAIN x.v # {}

\* Python's ==: bool is a subtype of int (True == 1, False == 0); values of
\* other types are equal when they have the same type and the same content
PyEq(a, b) ==
    LET Num(x) == IF x.t = "bool" THEN (IF x.v THEN 1 ELSE 0) ELSE x.v
    IN IF a.t \in {"int", "bool"} /\ b.t \in {"int", "bool"}
       THEN Num(a) = Num(b)
       ELSE a.t = b.t /\ a.v = b.v

\* a contiguous run of s equal to w (str.__contains__)
IsSubstring(w, s) == \E k \in 0..(Len(s) - Len(w)) : SubSeq(s, k + 1, k + Len(w)) = w

\* eval(expr, {"__builtins__": {}}, workflow_state) (line 524).  Of the
\* expressions eval() accepts the model covers a lone name, which reads the
\* state key of that name and raises NameError where there is none, and the
\* quotient 1/0, which raises ZeroDivisionError; any other text stands for
\* one eval() cannot parse.
Eval(expr, state) ==
    IF expr.v = <<"1", "/", "0">> THEN Raise("ZeroDivisionError")
    ELSE IF Len(expr.v) # 1 THEN Raise("SyntaxError")
    ELSE IF expr.v \in DOMAIN state THEN state[expr.v]
    ELSE Raise("NameError")

\* mutant: the exception of eval() is not caught
Caught_Reraised(outcome) == outcome

\* try: return eval(...) except Exception: return None (lines 522-526)
Caught(outcome) == IF IsRaise(outcome) THEN None ELSE outcome

\* _evaluate_expression (lines 513-526)
EvaluateExpression(expr, state, context_id) ==
    IF IsRef(expr) THEN GetValue(expr, state, context_id)
    ELSE Caught(Eval(expr, state))

\* the comparison of the compare shape (lines 484-499).  An ordering
\* comparison of two ints is computed; of other operand types it raises
\* TypeError (the ordering of two str or two list values is not modelled:
\* the conditions of the model order ints only).
Compare(left, operator, right) ==
    LET Ordered(holds) ==
            IF left.t = "int" /\ right.t = "int"
            THEN [raised |-> "none", value |-> holds]
            ELSE [raised |-> "TypeError", value |-> FALSE]
        Member ==
            IF IsList(right) THEN \E i \in 1..Len(right.v) : PyEq(right.v[i], left)
            ELSE IsSubstring(left.v, right.v)
    IN CASE operator = PyStr(W("==")) -> [raised |-> "none", value |-> PyEq(left, right)]
         [] operator = PyStr(W("!=")) -> [raised |-> "none", value |-> ~PyEq(left, right)]
         [] operator = PyStr(W(">")) -> Ordered(left.v > right.v)
         [] operator = PyStr(W("<")) -> Ordered(left.v < right.v)
         [] operator = PyStr(W(">=")) -> Ordered(left.v >= right.v)
         [] operator = PyStr(W("<=")) -> Ordered(left.v <= right.v)
         [] operator = PyStr(W("in")) ->
              IF IsList(right) \/ IsStr(right)
              THEN IF IsStr(right) /\ ~IsStr(left)
                   THEN [raised |-> "TypeError", value |-> FALSE]
                   ELSE [raised |-> "none", value |-> Member]
              ELSE [raised |-> "none", value |-> FALSE]
         [] operator = PyStr(W("not_in")) ->
              IF IsList(right) \/ IsStr(right)
              THEN IF IsStr(right) /\ ~IsStr(left)
                   THEN [raised |-> "TypeError", value |-> FALSE]
                   ELSE [raised |-> "none", value |-> ~Member]
              ELSE [raised |-> "none", value |-> TRUE]
         [] OTHER -> [raised |-> "none", value |-> FALSE]

\* _evaluate_condition (lines 464-501): the boolean, or the fault raised
EvaluateCondition(condition, state, context_id) ==
    LET condition_type == DictGet(condition, W("type"))
    IN IF condition_type = PyStr(W("expression"))
       THEN LET value == EvaluateExpression(DictGet(condition, W("expression")),
                                            state, context_id)
            IN IF IsRaise(value) THEN [raised |-> value.v, value |-> FALSE]
               ELSE [raised |-> "none", value |-> Truthy(value)]
       ELSE IF condition_type = PyStr(W("compare"))
       THEN Compare(GetValue(DictGet(condition, W("left")), state, context_id),
                    IF W("operator") \in DOMAIN condition.v
                    THEN condition.v[W("operator")] ELSE PyStr(W("==")),
                    GetValue(DictGet(condition, W("right")), state, context_id))
       ELSE [raised |-> "none", value |-> FALSE]

(***************************************************************************)
(* Execution Dispatcher and Loop Controller.                               *)
(***************************************************************************)
\* keys of NODE_REGISTRY (src/nodes/example_nodes.py)
NodeRegistry == {"echo", "transform", "stream", "think", "task_planner", "rag",
                 "summarize", "tool"}

\* mutant: an assignment drops the other keys
Put_Alone(f, key, value) == [x \in {key} |-> value]

\* dict[key] = value
Put(f, key, value) == [x \in DOMAIN f \cup {key} |-> IF x = key THEN value ELSE f[x]]

\* self.node_configs[node_id]: _build_nodes stores the declarations in
\* order, so the last declaration of an id is the one kept
NodeConfig(node_id) ==
    LET last == CHOOSE i \in 1..Len(config.nodes) :
                    /\ config.nodes[i].id = node_id
                    /\ \A j \in (i + 1)..Len(config.nodes) : config.nodes[j].id # node_id
    IN config.nodes[last]

\* mutant: the dispatcher walks the order from its end
node_order_Reversed ==
    [i \in 1..Len(orderResult.order) |-> orderResult.order[Len(orderResult.order) + 1 - i]]

\* the node_order argument of _execute_nodes (lines 172, 177, 184)
node_order == orderResult.order

\* the declaration being dispatched, and for a loop its parts (lines 274-277)
CurrentId == node_order[pos]
CurrentConfig == NodeConfig(CurrentId)
loop_nodes == CurrentConfig.nodes
SubId(i) == Scoped(CurrentId, loop_nodes[i].id)
IterationKey == Scoped(CurrentId, W("iteration"))

\* an Execution Event; loop_iteration is None where the key is absent
Event(node_id, output, loop_iteration) ==
    [node_id |-> node_id, output |-> output, loop_iteration |-> loop_iteration,
     is_final |-> FALSE]

Invocation(inputs, loop_iteration) == [inputs |-> inputs, loop_iteration |-> loop_iteration]

\* the history with one more call of node_id
Called(node_id, inputs, loop_iteration) ==
    Put(invoked, node_id,
        Append(IF node_id \in DOMAIN invoked THEN invoked[node_id] ELSE <<>>,
               Invocation(inputs, loop_iteration)))

NoCall == [node_id |-> <<>>, emitted |-> <<>>, last_output |-> None]

\* The Node Contract (BaseNode.execute): the records a node may produce
\* next, having produced `emitted` in this call, and whether its stream may
\* end here.
IsPrefix(q, r) == Len(q) <= Len(r) /\ SubSeq(r, 1, Len(q)) = q
NextOutputs(node_id, emitted) ==
    {r[Len(emitted) + 1] : r \in {x \in impl[node_id] : IsPrefix(emitted, x) /\ x # emitted}}
MayEnd(node_id, emitted) == emitted \in impl[node_id]

\* _build_nodes (lines 22-38): every top-level declaration that is not a
\* loop or a switch is instantiated from NODE_REGISTRY; a type the registry
\* does not have raises ValueError.  Sub-node declarations are not visited.
BuildNodes(cfg) ==
    IF \E i \in 1..Len(cfg.nodes) :
          cfg.nodes[i].type \notin {"loop", "switch"} \cup NodeRegistry
    THEN "ValueError" ELSE "none"

\* WorkflowEngine(config) (lines 10-20): the engine exists only if
\* _build_nodes returned
Construct ==
    /\ pc = "new"
    /\ pc' = IF BuildNodes(config) # "none" THEN "load_fault" ELSE "start"
    /\ UNCHANGED <<config, other, evaluated, orderVars, refVars, runVars>>

\* execute (lines 164-173): fresh state, then the order is resolved
Execute ==
    /\ pc = "start"
    /\ workflow_state' = IF Truthy(initial_inputs)
                         THEN W("_initial") :> initial_inputs ELSE <<>>
    /\ orderResult' = GetExecutionOrder(NodeIds(config), config.connections)
    /\ pc' = IF orderResult'.raised # "none" THEN "fault" ELSE "dispatch"
    /\ pos' = 1
    /\ UNCHANGED <<config, other, evaluated, impl, initial_inputs, selected_nodes, refVars, events, executed_nodes, cur,
                   iteration, sub, tasks, pending, queue, invoked>>

\* mutant: the Done set is never consulted
AlreadyExecuted_Never(node_id, executed) == FALSE

\* if node_id in executed_nodes: continue (lines 185-187)
AlreadyExecuted(node_id, executed) == node_id \in executed

\* _evaluate_condition_value (lines 503-511), reached from a switch with a
\* mapping condition
EvaluateConditionValue(condition, state) ==
    IF IsRef(condition) THEN GetValue(condition, state, None)
    ELSE IF IsDict(condition)
    THEN LET expr == DictGet(condition, W("expression"))
         IN IF Truthy(expr) THEN EvaluateExpression(expr, state, None) ELSE condition
    ELSE condition

\* the first case, in declared order, whose value equals condition_value
\* (lines 398-402); 0 if there is none
FirstMatch(cases, condition_value) ==
    IF \E i \in 1..Len(cases) : PyEq(condition_value, cases[i].value)
    THEN CHOOSE i \in 1..Len(cases) :
             /\ PyEq(condition_value, cases[i].value)
             /\ \A j \in 1..(i - 1) : ~PyEq(condition_value, cases[j].value)
    ELSE 0

\* mutant: the default branch is taken whenever one is declared
ExecuteSwitch_DefaultFirst(switch_config, state) ==
    IF switch_config.default # None THEN switch_config.default.nodes ELSE <<>>

\* _execute_switch (lines 378-410): the sub-node list to execute
ExecuteSwitch(switch_config, state) ==
    LET condition == switch_config.condition
        condition_value ==
            IF IsStr(condition) THEN GetValue(condition, state, None)
            ELSE IF IsDict(condition) THEN EvaluateConditionValue(condition, state)
            ELSE condition
        hit == FirstMatch(switch_config.cases, condition_value)
    IN IF hit # 0 THEN switch_config.cases[hit].nodes
       ELSE IF switch_config.default # None THEN switch_config.default.nodes
       ELSE <<>>

\* mutant: the record written when the stream has ended is the unset value
FinalState_Unset(state, key, last_output) == Put(state, key, None)

\* if last_output: workflow_state[node_id] = last_output (lines 257-258,
\* 233-234, 314-315)
FinalState(state, key, last_output) ==
    IF Truthy(last_output) THEN Put(state, key, last_output) ELSE state

\* workflow_state[node_id] = output, on each record of an invocation that
\* has emitted `emitted` before it (lines 248, 225, 306)
Recorded(state, key, output, emitted) == Put(state, key, output)

\* mutant: every plain node is given the initial inputs
MergesInitial_Always(node_id, order, initial) == Truthy(initial)

\* if node_id == node_order[0] and initial_inputs (line 240)
MergesInitial(node_id, order, initial) == node_id = order[1] /\ Truthy(initial)

\* mutant: the condition is tested before the first body
LoopEntry_ConditionFirst == "loop_cond"

\* iteration = 0, then "while iteration < max_iterations" (lines 279-282)
LoopEntry == "loop_head"

\* _execute_nodes, the head of the loop over node_order (lines 184-246): the
\* end of the order, a node already executed, the entry of a loop, the
\* selection of a switch, or the call of a plain node with its resolved
\* inputs
Dispatch ==
    /\ pc = "dispatch"
    /\ IF pos > Len(node_order)
       THEN /\ pc' = "done"
            /\ UNCHANGED <<workflow_state, pos, cur, iteration, sub, tasks, selected_nodes,
                           invoked>>
       ELSE IF AlreadyExecuted(CurrentId, executed_nodes)
       THEN /\ pos' = pos + 1
            /\ UNCHANGED <<pc, workflow_state, cur, iteration, sub, tasks, selected_nodes,
                           invoked>>
       ELSE IF CurrentConfig.type = "loop"
       THEN /\ iteration' = 0
            /\ workflow_state' = Put(workflow_state, IterationKey,
                                     PyDict(W("result") :> PyInt(0)))
            /\ tasks' = <<>>
            /\ pc' = LoopEntry
            /\ UNCHANGED <<pos, cur, sub, selected_nodes, invoked>>
       ELSE IF CurrentConfig.type = "switch"
       THEN /\ selected_nodes' = ExecuteSwitch(CurrentConfig, workflow_state)
            /\ sub' = 1
            /\ pc' = "sw"
            /\ UNCHANGED <<workflow_state, pos, cur, iteration, tasks, invoked>>
       ELSE LET r == ResolveInputs(CurrentConfig.inputs, workflow_state)
                inputs == IF MergesInitial(CurrentId, node_order, initial_inputs)
                          THEN [k \in DOMAIN r.inputs \cup DOMAIN initial_inputs.v |->
                                   IF k \in DOMAIN initial_inputs.v
                                   THEN initial_inputs.v[k] ELSE r.inputs[k]]
                          ELSE r.inputs
            IN IF r.raised # "none"
               THEN /\ pc' = "fault"
                    /\ UNCHANGED <<workflow_state, pos, cur, iteration, sub, tasks,
                                   selected_nodes, invoked>>
               ELSE /\ cur' = [node_id |-> CurrentId, emitted |-> <<>>, last_output |-> None]
                    /\ invoked' = Called(CurrentId, inputs, None)
                    /\ pc' = "plain"
                    /\ UNCHANGED <<workflow_state, pos, iteration, sub, tasks,
                                   selected_nodes>>
    /\ evaluated' = IF /\ pos <= Len(node_order)
                       /\ ~AlreadyExecuted(CurrentId, executed_nodes)
                       /\ CurrentConfig.type = "loop"
                    THEN 0 ELSE evaluated
    /\ UNCHANGED <<config, other, impl, initial_inputs, orderVars, refVars, events,
                   executed_nodes, pending, queue>>

\* one step of "async for output in node.execute(inputs)" at the call in
\* progress: the node raises, which leaves the generator at once, or it
\* yields a record, which is recorded and passed on with the tag
\* loop_iteration (lines 246-254, 223-230, 304-312)
NodeStep(loop_iteration) ==
    \E output \in NextOutputs(cur.node_id, cur.emitted) :
        IF IsRaise(output)
        THEN /\ pc' = "fault"
             /\ UNCHANGED <<cur, workflow_state, events>>
        ELSE /\ cur' = [cur EXCEPT !.emitted = Append(@, output), !.last_output = output]
             /\ workflow_state' = Recorded(workflow_state, cur.node_id, output, cur.emitted)
             /\ events' = Append(events, Event(cur.node_id, output, loop_iteration))
             /\ UNCHANGED pc

\* one output of a plain node (lines 246-254)
PlainEmit ==
    /\ pc = "plain"
    /\ NodeStep(None)
    /\ UNCHANGED <<config, other, evaluated, impl, initial_inputs, selected_nodes, orderVars, refVars, pos,
                   executed_nodes, iteration, sub, tasks, pending, queue, invoked>>

\* the plain node's stream has ended (lines 257-260)
PlainFinish ==
    /\ pc = "plain"
    /\ MayEnd(cur.node_id, cur.emitted)
    /\ workflow_state' = FinalState(workflow_state, cur.node_id, cur.last_output)
    /\ executed_nodes' = executed_nodes \cup {cur.node_id}
    /\ cur' = NoCall
    /\ pos' = pos + 1
    /\ pc' = "dispatch"
    /\ UNCHANGED <<config, other, evaluated, impl, initial_inputs, selected_nodes, orderVars, refVars, events,
                   iteration, sub, tasks, pending, queue, invoked>>

\* a sub-node of the switch being dispatched
SwitchSubId(i) == Scoped(CurrentId, selected_nodes[i].id)

\* a switch, the head of "for sub_node_config in selected_nodes" (lines
\* 199-223): the end of the list (then line 260), a nested control-flow
\* sub-node or one of an unregistered type (passed over), or the call of
\* the sub-node
SwitchSub ==
    /\ pc = "sw"
    /\ IF sub > Len(selected_nodes)
       THEN /\ executed_nodes' = executed_nodes \cup {CurrentId}
            /\ pos' = pos + 1
            /\ pc' = "dispatch"
            /\ UNCHANGED <<sub, cur, invoked>>
       ELSE IF \/ selected_nodes[sub].type \in {"loop", "switch"}
               \/ selected_nodes[sub].type \notin NodeRegistry
       THEN /\ sub' = sub + 1
            /\ UNCHANGED <<pc, pos, executed_nodes, cur, invoked>>
       ELSE LET r == ResolveInputsForSubnode(selected_nodes[sub].inputs, workflow_state,
                                             CurrentId)
            IN /\ cur' = [node_id |-> SwitchSubId(sub), emitted |-> <<>>,
                          last_output |-> None]
               /\ invoked' = Called(SwitchSubId(sub), r.inputs, None)
               /\ pc' = "sw_run"
               /\ UNCHANGED <<sub, pos, executed_nodes>>
    /\ UNCHANGED <<config, other, evaluated, impl, initial_inputs, selected_nodes, orderVars, refVars,
                   workflow_state, events, iteration, tasks, pending, queue>>

\* one output of a switch sub-node (lines 223-230)
SwitchEmit ==
    /\ pc = "sw_run"
    /\ NodeStep(None)
    /\ UNCHANGED <<config, other, evaluated, impl, initial_inputs, selected_nodes, orderVars, refVars, pos,
                   executed_nodes, iteration, sub, tasks, pending, queue, invoked>>

\* the switch sub-node's stream has ended (lines 233-234)
SwitchFinish ==
    /\ pc = "sw_run"
    /\ MayEnd(cur.node_id, cur.emitted)
    /\ workflow_state' = FinalState(workflow_state, cur.node_id, cur.last_output)
    /\ cur' = NoCall
    /\ sub' = sub + 1
    /\ pc' = "sw"
    /\ UNCHANGED <<config, other, evaluated, impl, initial_inputs, selected_nodes, orderVars, refVars, events,
                   pos, executed_nodes, iteration, tasks, pending, queue, invoked>>

\* mutant: the drain loop watches the queue only
DrainContinues_QueueOnly(pend, q) == q # <<>>

\* while pending or not queue.empty() (line 346)
DrainContinues(pend, q) == pend # {} \/ q # <<>>

\* where the drain loop goes when its inner loop finds the queue empty
AfterDrain(pend, q) ==
    IF DrainContinues(pend, q)
    THEN (IF pend # {} THEN "c_wait" ELSE "c_drain")
    ELSE "c_gather"

NewTask == [st |-> "new", emitted |-> <<>>, last_out |-> None]

\* mutant: the tasks of an iteration are created and never awaited
AfterCreate_NoBarrier(ids) == "loop_cond"

\* after the tasks are created the controller enters the drain loop, and
\* after it the gather (lines 345-361)
AfterCreate(ids) == AfterDrain(ids, <<>>)

\* mutant: the bound is tested with <=
LoopContinues_OffByOne(iter, max_iterations) == iter <= max_iterations

\* while iteration < max_iterations (line 282)
LoopContinues(iter, max_iterations) == iter < max_iterations

\* _execute_loop, the head of "while iteration < max_iterations" (lines
\* 282-286) and, in concurrent mode, the creation of the iteration's queue
\* and tasks (lines 318-346)
LoopHead ==
    /\ pc = "loop_head"
    /\ IF LoopContinues(iteration, CurrentConfig.max_iterations)
       THEN /\ iteration' = iteration + 1
            /\ workflow_state' = Put(workflow_state, IterationKey,
                                     PyDict(W("result") :> PyInt(iteration + 1)))
            /\ IF ~CurrentConfig.concurrent
               THEN /\ sub' = 1
                    /\ pc' = "seq"
                    /\ UNCHANGED <<tasks, pending, queue>>
               ELSE LET ids == {<<iteration + 1, i>> : i \in 1..Len(loop_nodes)}
                    IN /\ tasks' = [id \in DOMAIN tasks \cup ids |->
                                       IF id \in ids THEN NewTask ELSE tasks[id]]
                       /\ pending' = ids
                       /\ queue' = <<>>
                       /\ pc' = AfterCreate(ids)
                       /\ UNCHANGED sub
       ELSE /\ pc' = "loop_summary"
            /\ UNCHANGED <<workflow_state, iteration, sub, tasks, pending, queue>>
    /\ UNCHANGED <<config, other, evaluated, impl, initial_inputs, selected_nodes, orderVars, refVars, events, pos,
                   executed_nodes, cur, invoked>>

\* sequential mode, the head of "for sub_node_config in loop_nodes" (lines
\* 288-304): the end of the body, a nested control-flow sub-node or one of
\* an unregistered type (passed over), or the call of the sub-node
SeqSub ==
    /\ pc = "seq"
    /\ IF sub > Len(loop_nodes)
       THEN /\ pc' = "loop_cond"
            /\ UNCHANGED <<sub, cur, invoked>>
       ELSE IF \/ loop_nodes[sub].type \in {"loop", "switch"}
               \/ loop_nodes[sub].type \notin NodeRegistry
       THEN /\ sub' = sub + 1
            /\ UNCHANGED <<pc, cur, invoked>>
       ELSE LET r == ResolveInputsForSubnode(loop_nodes[sub].inputs, workflow_state,
                                             CurrentId)
            IN /\ cur' = [node_id |-> SubId(sub), emitted |-> <<>>, last_output |-> None]
               /\ invoked' = Called(SubId(sub), r.inputs, PyInt(iteration))
               /\ pc' = "seq_run"
               /\ UNCHANGED sub
    /\ UNCHANGED <<config, other, evaluated, impl, initial_inputs, selected_nodes, orderVars, refVars, workflow_state,
                   events, pos, executed_nodes, iteration, tasks, pending, queue>>

\* one output of a sequential sub-node (lines 304-312)
SeqEmit ==
    /\ pc = "seq_run"
    /\ NodeStep(PyInt(iteration))
    /\ UNCHANGED <<config, other, evaluated, impl, initial_inputs, selected_nodes, orderVars, refVars, pos,
                   executed_nodes, iteration, sub, tasks, pending, queue, invoked>>

\* the sequential sub-node's stream has ended (lines 314-315)
SeqFinish ==
    /\ pc = "seq_run"
    /\ MayEnd(cur.node_id, cur.emitted)
    /\ workflow_state' = FinalState(workflow_state, cur.node_id, cur.last_output)
    /\ cur' = NoCall
    /\ sub' = sub + 1
    /\ pc' = "seq"
    /\ UNCHANGED <<config, other, evaluated, impl, initial_inputs, selected_nodes, orderVars, refVars, events, pos,
                   executed_nodes, iteration, tasks, pending, queue, invoked>>

\* The controller is suspended (in asyncio.wait, at a yield, in
\* asyncio.gather) or its generator has been closed by the consumer: the
\* event loop may run the sub-node tasks.  Nothing in _execute_loop cancels
\* a task it created, so a task outlives the generator that created it.
Suspended == pc \in {"c_wait", "c_yield", "c_gather", "cancelled"}

\* mutant: a record is put at the front of the queue
QueuePut_Front(q, item) == <<item>> \o q

\* await queue.put((sub_id, out)) on an unbounded FIFO queue (line 339)
QueuePut(q, item) == Append(q, item)

\* mutant: a record is queued under the sub-node's bare id
QueueItem_Unscoped(sub_id, out) == <<<<sub_id[Len(sub_id)]>>, out>>

\* the pair (sub_id, out) a task puts on the queue (line 339)
QueueItem(sub_id, out) == <<sub_id, out>>

\* a task that has returned or raised
Finished(task) == task.st \in {"done", "failed"}

\* run_sub_node up to the call of the node (lines 321-337)
TaskStart(id) ==
    /\ Suspended
    /\ tasks[id].st = "new"
    /\ LET sub_cfg == loop_nodes[id[2]]
           sub_id == SubId(id[2])
       IN IF sub_cfg.type \in {"loop", "switch"} \/ sub_cfg.type \notin NodeRegistry
          THEN /\ tasks' = [tasks EXCEPT ![id].st = "done"]
               /\ UNCHANGED invoked
          ELSE LET r == ResolveInputsForSubnode(sub_cfg.inputs, workflow_state, CurrentId)
               IN /\ tasks' = [tasks EXCEPT ![id].st = "run"]
                  /\ invoked' = Called(sub_id, r.inputs, PyInt(id[1]))
    /\ UNCHANGED <<config, other, evaluated, impl, initial_inputs, selected_nodes, orderVars, refVars, pc, workflow_state,
                   events, pos, executed_nodes, cur, iteration, sub, pending, queue>>

\* one step of "async for out in node_local.execute(inputs_local)" in a
\* task (lines 337-339): the node raises, which ends the task with that
\* exception, or it yields a record, which is put on the iteration's queue;
\* the queue of an earlier iteration is no longer read by anyone
TaskEmit(id) ==
    /\ Suspended
    /\ tasks[id].st = "run"
    /\ \E out \in NextOutputs(SubId(id[2]), tasks[id].emitted) :
          IF IsRaise(out)
          THEN /\ tasks' = [tasks EXCEPT ![id].st = "failed"]
               /\ UNCHANGED queue
          ELSE /\ tasks' = [tasks EXCEPT ![id].emitted = Append(@, out),
                                         ![id].last_out = out]
               /\ queue' = IF id[1] = iteration
                           THEN QueuePut(queue, QueueItem(SubId(id[2]), out)) ELSE queue
    /\ UNCHANGED <<config, other, evaluated, impl, initial_inputs, selected_nodes, orderVars, refVars, pc,
                   workflow_state, events, pos, executed_nodes, cur, iteration, sub,
                   pending, invoked>>

\* run_sub_node returns (line 340)
TaskFinish(id) ==
    /\ Suspended
    /\ tasks[id].st = "run"
    /\ MayEnd(SubId(id[2]), tasks[id].emitted)
    /\ tasks' = [tasks EXCEPT ![id].st = "done"]
    /\ UNCHANGED <<config, other, evaluated, impl, initial_inputs, selected_nodes, orderVars, refVars, pc, workflow_state,
                   events, pos, executed_nodes, cur, iteration, sub, pending, queue,
                   invoked>>

\* mutant: the controller may resume before a created task has run
TasksScheduled_Lazy(ts) == TRUE

\* The tasks are all created in one 'for' without an await (lines 342-343)
\* and put on the event loop's ready queue by create_task; the controller
\* first suspends in asyncio.wait (line 348), and the event loop runs every
\* ready step before it resumes the controller.
TasksScheduled(ts) == \A id \in DOMAIN ts : ts[id].st # "new"

\* asyncio.wait returns, on a completed task or on its timeout, with the
\* tasks that are not done yet (lines 347-350).  Tasks made by create_task
\* are already scheduled when the controller suspends, and the event loop
\* runs every scheduled step before it resumes the controller: each new
\* task has run up to its first suspension, past its input resolution.
CtlWait ==
    /\ pc = "c_wait"
    /\ TasksScheduled(tasks)
    /\ pending' = {id \in pending : ~Finished(tasks[id])}
    /\ pc' = "c_drain"
    /\ UNCHANGED <<config, other, evaluated, impl, initial_inputs, selected_nodes, orderVars, refVars, workflow_state,
                   events, pos, executed_nodes, cur, iteration, sub, tasks, queue,
                   invoked>>

\* the inner loop "while not queue.empty()" (lines 351-359): one record is
\* taken, committed to state and yielded; on an empty queue the outer
\* condition decides
CtlDrain ==
    /\ pc = "c_drain"
    /\ IF queue # <<>>
       THEN LET sub_id == Head(queue)[1]
                output == Head(queue)[2]
            IN /\ queue' = Tail(queue)
               /\ workflow_state' = Put(workflow_state, sub_id, output)
               /\ events' = Append(events, Event(sub_id, output, PyInt(iteration)))
               /\ pc' = "c_yield"
       ELSE /\ pc' = AfterDrain(pending, queue)
            /\ UNCHANGED <<queue, workflow_state, events>>
    /\ UNCHANGED <<config, other, evaluated, impl, initial_inputs, selected_nodes, orderVars, refVars, pos, executed_nodes,
                   cur, iteration, sub, tasks, pending, invoked>>

\* the consumer asks for the next event: the generator resumes after its yield
CtlResume ==
    /\ pc = "c_yield"
    /\ pc' = "c_drain"
    /\ UNCHANGED <<config, other, evaluated, impl, initial_inputs, selected_nodes, orderVars, refVars, workflow_state,
                   events, pos, executed_nodes, cur, iteration, sub, tasks, pending,
                   queue, invoked>>

\* "for sub_id, last_out in results" (lines 362-364)
RECURSIVE CommitResults(_, _)
CommitResults(state, i) ==
    IF i > Len(loop_nodes) THEN state
    ELSE CommitResults(IF tasks[<<iteration, i>>].last_out # None
                       THEN Put(state, SubId(i), tasks[<<iteration, i>>].last_out)
                       ELSE state,
                       i + 1)

\* asyncio.gather returns once every task of the iteration has finished
\* (line 361): it raises the exception of a task that raised, and otherwise
\* returns the results, which are committed (lines 362-364)
CtlGather ==
    /\ pc = "c_gather"
    /\ \A i \in 1..Len(loop_nodes) : Finished(tasks[<<iteration, i>>])
    /\ IF \E i \in 1..Len(loop_nodes) : tasks[<<iteration, i>>].st = "failed"
       THEN /\ pc' = "fault"
            /\ UNCHANGED workflow_state
       ELSE /\ workflow_state' = CommitResults(workflow_state, 1)
            /\ pc' = "loop_cond"
    /\ UNCHANGED <<config, other, evaluated, impl, initial_inputs, selected_nodes, orderVars, refVars, events,
                   pos, executed_nodes, cur, iteration, sub, tasks, pending, queue,
                   invoked>>

\* The consumer stops consuming while a concurrent iteration is in
\* progress: the generator is closed at its yield (GeneratorExit, line 354)
\* or the consuming task is cancelled in asyncio.wait (CancelledError, line
\* 348).  No handler in execute, _execute_nodes or _execute_loop catches
\* either: the three generators end, and nothing else is done.  The tasks
\* of the iteration were scheduled before the cancellation could be, so
\* each has run its first step.
Cancel ==
    /\ pc \in {"c_yield", "c_wait"}
    /\ TasksScheduled(tasks)
    /\ pc' = "cancelled"
    /\ UNCHANGED <<config, other, evaluated, impl, initial_inputs, selected_nodes, orderVars, refVars,
                   workflow_state, events, pos, executed_nodes, cur, iteration, sub,
                   tasks, pending, queue, invoked>>

\* mutant: the loop never breaks on its condition
AfterCondition_NoBreak(should_continue) == "loop_head"

\* if not should_continue: break (lines 368-369)
AfterCondition(should_continue) == IF should_continue THEN "loop_head" ELSE "loop_summary"

\* the continuation condition after the iteration body (lines 366-369)
LoopCond ==
    /\ pc = "loop_cond"
    /\ IF Truthy(CurrentConfig.condition)
       THEN LET r == EvaluateCondition(CurrentConfig.condition, workflow_state,
                                       PyStr(CurrentId))
            IN pc' = IF r.raised # "none" THEN "fault" ELSE AfterCondition(r.value)
       ELSE pc' = "loop_head"
    /\ evaluated' = IF Truthy(CurrentConfig.condition) THEN evaluated + 1 ELSE evaluated
    /\ UNCHANGED <<config, other, impl, initial_inputs, selected_nodes, orderVars, refVars, workflow_state,
                   events, pos, executed_nodes, cur, iteration, sub, tasks, pending,
                   queue, invoked>>

Summary(n) == PyDict(W("iteration") :> PyInt(n) @@ W("completed") :> PyBool(TRUE))

\* mutant: the state entry of a finished loop is the summary itself
SummaryState_Bare(n) == Summary(n)

\* the record written at the loop's own id (line 371)
SummaryState(n) == PyDict(W("result") :> Summary(n))

\* the loop's summary record and event (lines 371-376), then line 260
LoopSummary ==
    /\ pc = "loop_summary"
    /\ workflow_state' = Put(workflow_state, CurrentId, SummaryState(iteration))
    /\ events' = Append(events, Event(CurrentId, Summary(iteration), None))
    /\ executed_nodes' = executed_nodes \cup {CurrentId}
    /\ pos' = pos + 1
    /\ pc' = "dispatch"
    /\ UNCHANGED <<config, other, evaluated, impl, initial_inputs, selected_nodes, orderVars, refVars, cur, iteration,
                   sub, tasks, pending, queue, invoked>>

(***************************************************************************)
(* Two runs of one engine.  execute() keeps the run-time state, the        *)
(* execution order and every counter in the local variables of its own     *)
(* call (lines 164-173 and the generators it drives); the engine object    *)
(* the runs share holds the declarations and the node instances.  The      *)
(* variables above are the frame of the run the event loop is executing,   *)
(* `other` is the frame of the run it has suspended.                       *)
(***************************************************************************)
Frame ==
    [pc |-> pc, initial_inputs |-> initial_inputs, orderResult |-> orderResult,
     workflow_state |-> workflow_state, events |-> events, pos |-> pos,
     executed_nodes |-> executed_nodes, cur |-> cur, iteration |-> iteration,
     sub |-> sub, tasks |-> tasks, pending |-> pending, queue |-> queue,
     selected_nodes |-> selected_nodes, invoked |-> invoked, evaluated |-> evaluated]

\* a run that has not been iterated yet
NewFrame(inputs) ==
    [pc |-> "start", initial_inputs |-> inputs,
     orderResult |-> [raised |-> "none", order |-> <<>>],
     workflow_state |-> <<>>, events |-> <<>>, pos |-> 0, executed_nodes |-> {},
     cur |-> NoCall, iteration |-> 0, sub |-> 0, tasks |-> <<>>, pending |-> {},
     queue |-> <<>>, selected_nodes |-> <<>>, invoked |-> <<>>, evaluated |-> 0]

\* mutant: the run-time state is one mapping of the engine
FrameState_Shared(own, shared) == shared

\* workflow_state is a local variable of execute (line 166): a resumed run
\* finds the mapping of its own call
FrameState(own, shared) == own

\* where a run can be suspended: before its first step, at a yield or
\* inside a node's execute, and after its end
AtSuspension ==
    pc \in {"start", "plain", "sw_run", "seq_run", "c_wait", "c_yield", "c_gather",
            "done", "fault", "cancelled"}

\* the event loop suspends the run in progress and resumes the other one
SwitchRun ==
    /\ other # <<>>
    /\ AtSuspension
    /\ other' = Frame
    /\ pc' = other.pc
    /\ initial_inputs' = other.initial_inputs
    /\ orderResult' = other.orderResult
    /\ workflow_state' = FrameState(other.workflow_state, workflow_state)
    /\ events' = other.events
    /\ pos' = other.pos
    /\ executed_nodes' = other.executed_nodes
    /\ cur' = other.cur
    /\ iteration' = other.iteration
    /\ sub' = other.sub
    /\ tasks' = other.tasks
    /\ pending' = other.pending
    /\ queue' = other.queue
    /\ selected_nodes' = other.selected_nodes
    /\ invoked' = other.invoked
    /\ evaluated' = other.evaluated
    /\ UNCHANGED <<config, impl, refVars>>

(***************************************************************************)
(* The SSE endpoint: execute_workflow.generate (src/app.py).               *)
(***************************************************************************)
\* one event of the run as an SSE frame: "data: <json of the event>" (line 61)
SseFrame(event) == [data |-> event]

\* what generate has yielded: a frame for each event execute() has yielded,
\* and nothing else; generate has no handler, so an exception raised by
\* execute() ends it without a further frame (lines 57-61)
SseStream == [i \in 1..Len(events) |-> SseFrame(events[i])]

(***************************************************************************)
(* Specification SpecOrder: the order resolver applied to every            *)
(* declaration list and connection list within the bounds.  "X" is an id   *)
(* that no declaration list declares.                                      *)
(***************************************************************************)
OrderIds == {W("A"), W("B"), W("C")}
UnknownId == W("X")

SeqsUpTo(S, n) == UNION {[1..k -> S] : k \in 0..n}

IsInjective(q) == \A i, j \in 1..Len(q) : q[i] = q[j] => i = j

\* declaration lists: ids are unique, in any order
DeclLists ==
    {q \in UNION {[1..k -> OrderIds] : k \in 1..Cardinality(OrderIds)} : IsInjective(q)}

ConnsOver(ids) == SeqsUpTo([from : ids, to : ids], MaxConns)

\* the variables of the other specifications, at rest
RefIdle == refIn = <<>> /\ refOut = <<>>
OrderIdle == orderResult = [raised |-> "none", order |-> <<>>]
RunIdle ==
    /\ impl = <<>>
    /\ initial_inputs = None
    /\ workflow_state = <<>>
    /\ events = <<>>
    /\ pos = 0
    /\ executed_nodes = {}
    /\ cur = <<>>
    /\ iteration = 0
    /\ sub = 0
    /\ tasks = <<>>
    /\ pending = {}
    /\ queue = <<>>
    /\ selected_nodes = <<>>
    /\ invoked = <<>>
    /\ other = <<>>
    /\ evaluated = 0

InitOrder ==
    /\ \E nodeIds \in DeclLists :
         \E conns \in ConnsOver(Range(nodeIds) \cup {UnknownId}) :
             config = [nodes |-> [i \in 1..Len(nodeIds) |-> [id |-> nodeIds[i], type |-> "echo"]],
                       connections |-> conns]
    /\ pc = "load"
    /\ OrderIdle
    /\ RefIdle
    /\ RunIdle

ResolveOrder ==
    /\ pc = "load"
    /\ orderResult' = GetExecutionOrder(NodeIds(config), config.connections)
    /\ pc' = "ordered"
    /\ UNCHANGED <<config, other, evaluated, refVars, runVars>>

NextOrder == ResolveOrder

SpecOrder == InitOrder /\ [][NextOrder]_vars

(***************************************************************************)
(* Graph notions used to state the claims, defined independently of Kahn.  *)
(***************************************************************************)
Edges(conns) == {<<conns[i].from, conns[i].to>> : i \in 1..Len(conns)}

\* b is reachable from a along at least one connection
RECURSIVE ReachSet(_, _)
ReachSet(front, E) ==
    LET more == front \cup {e[2] : e \in {d \in E : d[1] \in front}}
    IN IF more = front THEN front ELSE ReachSet(more, E)

HasCycle(conns) ==
    LET E == Edges(conns)
    IN \E e \in E : e[1] \in ReachSet({e[2]}, E)

IndexOf(q, x) == CHOOSE i \in 1..Len(q) : q[i] = x

IsPermutationOf(q, p) == Len(q) = Len(p) /\ Range(q) = Range(p) /\ IsInjective(q)

AllDeclared(nodeIds, conns) ==
    \A i \in 1..Len(conns) :
        conns[i].from \in Range(nodeIds) /\ conns[i].to \in Range(nodeIds)

\* C1: for a non-empty connection list over declared ids, an acyclic list
\* yields a permutation of the declared ids in which every connection's
\* 'from' precedes its 'to'; a list with a cycle (a self-loop included)
\* yields exactly the declaration order.
C1_TopologicalOrFallback ==
    (/\ pc = "ordered"
     /\ config.connections # <<>>
     /\ AllDeclared(NodeIds(config), config.connections))
    => /\ orderResult.raised = "none"
       /\ IF HasCycle(config.connections)
          THEN orderResult.order = NodeIds(config)
          ELSE /\ IsPermutationOf(orderResult.order, NodeIds(config))
               /\ \A i \in 1..Len(config.connections) :
                    IndexOf(orderResult.order, config.connections[i].from)
                      < IndexOf(orderResult.order, config.connections[i].to)

\* an acyclic connection list that forces an order other than the declared one
C1_Witness ==
    /\ pc = "ordered"
    /\ config.connections # <<>>
    /\ AllDeclared(NodeIds(config), config.connections)
    /\ ~HasCycle(config.connections)
    /\ Len(config.connections) = 2
    /\ orderResult.order # NodeIds(config)

\* C2: a connection that references an undeclared id (as 'from' or as 'to'),
\* or an empty connection list, yields the declaration order and no fault.
C2_UnknownIdYieldsDeclarationOrder ==
    (/\ pc = "ordered"
     /\ \/ config.connections = <<>>
        \/ ~AllDeclared(NodeIds(config), config.connections))
    => /\ orderResult.raised = "none"
       /\ orderResult.order = NodeIds(config)

(***************************************************************************)
(* Specification SpecResolve: the resolvers applied to every path built    *)
(* from a source key and up to MaxSegs segments, well formed or not,       *)
(* against states that hold the source key, its scoped key, or neither.    *)
(***************************************************************************)
Items3 == PyList(<<PyInt(10), PyInt(20), PyInt(30)>>)
Items1 == PyList(<<PyInt(10)>>)
RecItems3 == PyDict(W("result") :> PyDict(W("items") :> Items3))
RecItems1 == PyDict(W("result") :> PyDict(W("items") :> Items1))

RefRecords ==
    { RecItems3,
      RecItems1,
      PyDict(W("items") :> Items3),
      PyDict(W("result") :> PyStr(W("hi")) @@ W("output") :> PyStr(W("out"))),
      PyDict(W("output") :> PyStr(W("out")) @@ W("items") :> Items1),
      PyDict(W("other") :> PyInt(1)),
      Items3 }

RefScope == W("L")
RefSources == {W("B"), W("Z")}

\* path segments: plain keys, key[index] forms and malformed forms
Segments ==
    { <<"items">>, <<"result">>, <<>>,
      <<"items", "[", "1", "]">>,
      <<"items", "[", "5", "]">>,
      <<"result", "[", "1", "]">>,
      <<"items", "[", "1", "0", "]">>,
      <<"[", "2", "]">>,
      <<"items", "[", "sup2", "]">>,
      <<"items", "[", "other", "]">>,
      <<"items", "]", "1", "[">>,
      <<"items", "[">> }

RECURSIVE JoinSegs(_)
JoinSegs(segs) ==
    IF segs = <<>> THEN <<>> ELSE <<".">> \o Head(segs) \o JoinSegs(Tail(segs))

RefPaths ==
    {<<"$">> \o src \o JoinSegs(segs) : src \in RefSources, segs \in SeqsUpTo(Segments, MaxSegs)}

\* records held under the top-level key and under the scoped key at once
ShadowRecords ==
    { PyDict(W("result") :> PyStr(W("hi")) @@ W("output") :> PyStr(W("out"))),
      PyDict(W("result") :> PyStr(W("top"))),
      PyDict(W("other") :> PyInt(1)) }

\* the state holds "B", or only the scoped "L.B", or both with different
\* records, or nothing
RefStates ==
    {<<>>} \cup {W("B") :> r : r \in RefRecords}
           \cup {Scoped(RefScope, W("B")) :> r : r \in RefRecords}
           \cup {W("B") :> p[1] @@ Scoped(RefScope, W("B")) :> p[2] :
                     p \in {q \in ShadowRecords \X ShadowRecords : q[1] # q[2]}}

InitResolve ==
    /\ \E p \in RefPaths, st \in RefStates :
           refIn = [path |-> p, state |-> st, scope |-> RefScope]
    /\ refOut = <<>>
    /\ pc = "ref"
    /\ config = <<>>
    /\ OrderIdle
    /\ RunIdle

\* structured input specs around a path: a mapping, a sequence, a sequence
\* in a mapping and a mapping in a mapping, each beside a literal leaf
Literal == PyStr(W("lit"))
MapSpec(path) == PyDict(W("m") :> PyStr(path) @@ W("k") :> Literal)
ListSpec(path) == PyList(<<PyStr(path), Literal>>)
MapListSpec(path) == PyDict(W("l") :> ListSpec(path) @@ W("k") :> Literal)
MapMapSpec(path) == PyDict(W("d") :> MapSpec(path) @@ W("k") :> Literal)

\* the value a sub-node receives for one declared input
SubInput(input_source, state, parent_id) ==
    ResolveInputsForSubnode(W("x") :> input_source, state, parent_id).inputs[W("x")]

ApplyResolvers ==
    /\ pc = "ref"
    /\ refOut' = [top |-> ResolveRef(refIn.path, refIn.state),
                  nested |-> ResolveNestedRef(refIn.path, refIn.state),
                  sub |-> ResolveSubRef(refIn.path, refIn.state, refIn.scope),
                  cond |-> GetValue(PyStr(refIn.path), refIn.state, PyStr(refIn.scope)),
                  condNoScope |-> GetValue(PyStr(refIn.path), refIn.state, None),
                  inMap |-> ResolveInput(MapSpec(refIn.path), refIn.state),
                  inList |-> ResolveInput(ListSpec(refIn.path), refIn.state),
                  inMapList |-> ResolveInput(MapListSpec(refIn.path), refIn.state),
                  inMapMap |-> ResolveInput(MapMapSpec(refIn.path), refIn.state),
                  subMap |-> SubInput(MapSpec(refIn.path), refIn.state, refIn.scope),
                  subList |-> SubInput(ListSpec(refIn.path), refIn.state, refIn.scope)]
    /\ pc' = "resolved"
    /\ UNCHANGED <<config, other, evaluated, refIn, orderVars, runVars>>

NextResolve == ApplyResolvers

SpecResolve == InitResolve /\ [][NextResolve]_vars

RefSourceKey == PathParts(refIn.path)[1]
RefIsBare == Len(PathParts(refIn.path)) = 1
RefResults == {refOut.top, refOut.nested, refOut.sub, refOut.cond, refOut.condNoScope}

\* C3: a reference whose source key is absent from the state (and whose
\* scoped key is absent too, where a scope is given) resolves to None in
\* every resolver, and no path, malformed segments included, makes a
\* resolver raise.
C3_AbsentOrMalformedNeverRaises ==
    pc = "resolved" =>
        /\ \A r \in RefResults : ~IsRaise(r)
        /\ RefSourceKey \notin DOMAIN refIn.state
             => /\ refOut.top = None /\ refOut.nested = None /\ refOut.condNoScope = None
                /\ Scoped(refIn.scope, RefSourceKey) \notin DOMAIN refIn.state
                     => refOut.sub = None /\ refOut.cond = None

\* what the convention prescribes for a mapping entry
BareExpected(entry) ==
    CASE W("result") \in DOMAIN entry.v -> entry.v[W("result")]
      [] W("result") \notin DOMAIN entry.v /\ W("output") \in DOMAIN entry.v -> entry.v[W("output")]
      [] OTHER -> entry

\* C4: a bare reference to a mapping entry resolves to its 'result' field if
\* present, else its 'output' field if present, else the whole mapping, in
\* the input resolvers and in the condition value resolver alike.
C4_BarePrefersResult ==
    (pc = "resolved" /\ RefIsBare) =>
        /\ (RefSourceKey \in DOMAIN refIn.state /\ IsDict(refIn.state[RefSourceKey]))
             => \A r \in RefResults : r = BareExpected(refIn.state[RefSourceKey])
        /\ (/\ RefSourceKey \notin DOMAIN refIn.state
            /\ Scoped(refIn.scope, RefSourceKey) \in DOMAIN refIn.state
            /\ IsDict(refIn.state[Scoped(refIn.scope, RefSourceKey)]))
             => \A r \in {refOut.sub, refOut.cond} :
                    r = BareExpected(refIn.state[Scoped(refIn.scope, RefSourceKey)])

\* a bare reference to an entry holding both fields has been resolved to 'result'
C4_Witness ==
    /\ pc = "resolved"
    /\ RefIsBare
    /\ RefSourceKey \in DOMAIN refIn.state
    /\ IsDict(refIn.state[RefSourceKey])
    /\ {W("result"), W("output")} \subseteq DOMAIN refIn.state[RefSourceKey].v
    /\ refOut.top = PyStr(W("hi"))
    /\ refOut.cond = PyStr(W("hi"))

(***************************************************************************)
(* Specification SpecRun: one run of execute() over each workflow of       *)
(* Workflows.  A node implementation is given by the output sequences its  *)
(* execute() may produce (the Node Contract: a finite sequence of          *)
(* records); the run chooses one at each call.                             *)
(***************************************************************************)
PlainNode(id, type, inputs) ==
    [id |-> id, type |-> type, inputs |-> inputs, nodes |-> <<>>, condition |-> None,
     max_iterations |-> 0, concurrent |-> FALSE]

LoopNode(id, nodes, condition, max_iterations, concurrent) ==
    [id |-> id, type |-> "loop", inputs |-> <<>>, nodes |-> nodes,
     condition |-> condition, max_iterations |-> max_iterations,
     concurrent |-> concurrent]

Ref(path) == PyStr(path)
Result(x) == PyDict(W("result") :> x)

\* A, B, C in declaration order with no connections; B reads "$A"
ChainWorkflow ==
    [config |->
        [nodes |-> << PlainNode(W("A"), "echo", <<>>),
                      PlainNode(W("B"), "echo", W("text") :> Ref(<<"$", "A">>)),
                      PlainNode(W("C"), "echo", <<>>) >>,
         connections |-> <<>>],
     impl |-> W("A") :> { <<Result(PyStr(W("hi")))>>,
                          <<Result(PyStr(W("lo"))), Result(PyStr(W("hi")))>>,
                          <<Result(PyStr(W("hi"))), Result(PyStr(W("lo")))>> }
           @@ W("B") :> { <<Result(PyStr(W("b")))>> }
           @@ W("C") :> { <<>>, <<Result(PyStr(W("c")))>> }]

\* B, then A reading an indexed path into B's record
IndexWorkflow ==
    [config |->
        [nodes |-> << PlainNode(W("B"), "echo", <<>>),
                      PlainNode(W("A"), "echo",
                                W("x") :> Ref(<<"$", "B", ".", "items", "[", "1", "]">>)
                                @@ W("y") :> Ref(<<"$", "B", ".", "result", ".", "items",
                                                   "[", "1", "]">>)) >>,
         connections |-> <<>>],
     impl |-> W("B") :> { <<RecItems3>>, <<RecItems1>>, <<RecItems3, RecItems1>>,
                          <<RecItems1, RecItems3>> }
           @@ W("A") :> { <<Result(PyStr(W("a")))>> }]

\* a streaming node: 0..MaxEmit records, the k-th carrying result k
StreamOutputs == {[k \in 1..n |-> Result(PyInt(k))] : n \in 0..MaxEmit}

CondAlways ==
    PyDict(W("type") :> PyStr(W("compare")) @@ W("left") :> PyInt(1)
           @@ W("operator") :> PyStr(W("==")) @@ W("right") :> PyInt(1))

\* continue while the last record of sub-node a does not carry result 2
CondUntilTwo ==
    PyDict(W("type") :> PyStr(W("compare")) @@ W("left") :> Ref(<<"$", "a">>)
           @@ W("operator") :> PyStr(W("!=")) @@ W("right") :> PyInt(2))

LoopConditions == {None, CondAlways, CondUntilTwo}

\* a loop L over a streaming sub-node a, a nested switch (not supported in a
\* loop body) and a sub-node b that reads its sibling a
LoopWorkflow(condition, max_iterations, concurrent) ==
    [config |->
        [nodes |-> << LoopNode(W("L"),
                               << PlainNode(W("a"), "stream",
                                            W("n") :> Ref(<<"$", "iteration">>)),
                                  PlainNode(W("s"), "switch", <<>>),
                                  PlainNode(W("b"), "echo", W("v") :> Ref(<<"$", "a">>)) >>,
                               condition, max_iterations, concurrent) >>,
         connections |-> <<>>],
     impl |-> <<"L", ".", "a">> :> StreamOutputs
           @@ <<"L", ".", "b">> :> { <<Result(PyStr(W("b")))>> }]

SwitchNode(id, condition, cases, default) ==
    [id |-> id, type |-> "switch", inputs |-> <<>>, condition |-> condition,
     cases |-> cases, default |-> default]

Case(value, nodes) == [value |-> value, nodes |-> nodes]

\* what a switch may declare as its condition: a reference, a mapping with
\* an expression, a literal
SwitchConditions ==
    { Ref(<<"$", "K">>),
      PyDict(W("expression") :> Ref(<<"$", "K">>)),
      PyBool(TRUE) }

SwitchDefaults == {None, [nodes |-> <<PlainNode(W("d"), "echo", <<>>)>>]}

\* K, then a switch S on K's result: two cases with the value "x" (p, then
\* q), one with the value 1, and possibly a default; p streams and is
\* followed by a sub-node of an unregistered type
SwitchWorkflow(condition, default) ==
    [config |->
        [nodes |-> << PlainNode(W("K"), "echo", <<>>),
                      SwitchNode(W("S"), condition,
                                 << Case(PyStr(W("x")),
                                         << PlainNode(W("p"), "stream",
                                                      W("v") :> Ref(<<"$", "K">>)),
                                            PlainNode(W("u"), "unknown", <<>>) >>),
                                    Case(PyStr(W("x")),
                                         << PlainNode(W("q"), "echo", <<>>) >>),
                                    Case(PyInt(1),
                                         << PlainNode(W("one"), "echo", <<>>) >>) >>,
                                 default),
                      PlainNode(W("T"), "echo", <<>>) >>,
         connections |-> <<>>],
     impl |-> W("K") :> { <<Result(PyStr(W("x")))>>, <<Result(PyStr(W("z")))>> }
           @@ <<"S", ".", "p">> :> (StreamOutputs \ {<<>>})
           @@ <<"S", ".", "q">> :> { <<Result(PyStr(W("q")))>> }
           @@ <<"S", ".", "one">> :> { <<Result(PyStr(W("one")))>> }
           @@ <<"S", ".", "d">> :> { <<>>, <<Result(PyStr(W("d")))>> }
           @@ W("T") :> { <<Result(PyStr(W("t")))>> }]

\* A is declared twice, around B
DupWorkflow ==
    [config |->
        [nodes |-> << PlainNode(W("A"), "echo", <<>>),
                      PlainNode(W("B"), "echo", <<>>),
                      PlainNode(W("A"), "echo", <<>>) >>,
         connections |-> <<>>],
     impl |-> W("A") :> { <<Result(PyStr(W("hi")))>> }
           @@ W("B") :> { <<Result(PyStr(W("b")))>>,
                          <<Result(PyStr(W("b"))), PyDict(<<>>)>> }]

\* node implementations that may raise: at once, or after a record
Faulty == { <<Raise("RuntimeError")>>,
            <<Result(PyInt(1)), Raise("RuntimeError")>>,
            <<Result(PyInt(1))>> }

\* P, then a loop F over a and b (one iteration), then R; P and a may raise
FaultWorkflow(concurrent) ==
    [config |->
        [nodes |-> << PlainNode(W("P"), "echo", <<>>),
                      LoopNode(W("F"),
                               << PlainNode(W("a"), "echo", <<>>),
                                  PlainNode(W("b"), "stream", <<>>) >>,
                               None, 1, concurrent),
                      PlainNode(W("R"), "echo", <<>>) >>,
         connections |-> <<>>],
     impl |-> W("P") :> Faulty
           @@ <<"F", ".", "a">> :> Faulty
           @@ <<"F", ".", "b">> :> (StreamOutputs \ {<<>>})
           @@ W("R") :> { <<Result(PyStr(W("r")))>> }]

CompareOperators == {"==", "!=", ">", "<", ">=", "<=", "in", "not_in"}

\* a compare condition whose left operand is a reference nothing resolves
CondUnset(operator) ==
    PyDict(W("type") :> PyStr(W("compare")) @@ W("left") :> Ref(<<"$", "missing">>)
           @@ W("operator") :> PyStr(W(operator)) @@ W("right") :> PyInt(1))

\* Q, then a loop U (two iterations at most) whose condition compares an
\* unset value
UnsetCondWorkflow(operator, concurrent) ==
    [config |->
        [nodes |-> << PlainNode(W("Q"), "echo", <<>>),
                      LoopNode(W("U"), << PlainNode(W("a"), "echo", <<>>) >>,
                               CondUnset(operator), 2, concurrent) >>,
         connections |-> <<>>],
     impl |-> W("Q") :> { <<Result(PyStr(W("q")))>> }
           @@ <<"U", ".", "a">> :> { <<Result(PyStr(W("a")))>> }]

\* a top-level declaration of a type the registry does not have
UnknownTopWorkflow ==
    [config |->
        [nodes |-> << PlainNode(W("A"), "echo", <<>>),
                      PlainNode(W("X"), "unknown", <<>>) >>,
         connections |-> <<>>],
     impl |-> W("A") :> { <<Result(PyStr(W("hi")))>> }]

\* a loop N (one iteration) whose second sub-node is of a type the registry
\* does not have, then T
UnknownSubWorkflow(concurrent) ==
    [config |->
        [nodes |-> << LoopNode(W("N"),
                               << PlainNode(W("a"), "echo", <<>>),
                                  PlainNode(W("u"), "unknown", <<>>) >>,
                               None, 1, concurrent),
                      PlainNode(W("T"), "echo", <<>>) >>,
         connections |-> <<>>],
     impl |-> <<"N", ".", "a">> :> { <<Result(PyStr(W("a")))>> }
           @@ W("T") :> { <<Result(PyStr(W("t")))>> }]

\* what a caller may pass as initial inputs: nothing, a value for q, or
\* values for q and for a name x no node declares
InitialInputs ==
    {PyDict(<<>>), PyDict(W("q") :> PyStr(W("init"))),
     PyDict(W("q") :> PyStr(W("init2")) @@ W("x") :> PyStr(W("extra")))}

\* A and B both declare a literal input q and read "$_initial.q"; B also
\* reads "$A"
InitialWorkflow ==
    [config |->
        [nodes |-> << PlainNode(W("A"), "echo",
                                W("q") :> PyStr(W("declared"))
                                @@ W("r") :> Ref(<<"$", "_initial", ".", "q">>)),
                      PlainNode(W("B"), "echo",
                                W("q") :> PyStr(W("declared"))
                                @@ W("r") :> Ref(<<"$", "_initial", ".", "q">>)
                                @@ W("a") :> Ref(<<"$", "A">>)) >>,
         connections |-> <<>>],
     impl |-> W("A") :> { <<Result(PyStr(W("hi")))>>, <<Result(PyStr(W("lo")))>> }
           @@ W("B") :> { <<Result(PyStr(W("b")))>> }]

\* a loop J (two iterations) whose first sub-node has the id "iteration";
\* its sibling b reads "$iteration"
IterationNameWorkflow(concurrent) ==
    [config |->
        [nodes |-> << LoopNode(W("J"),
                               << PlainNode(W("iteration"), "echo", <<>>),
                                  PlainNode(W("b"), "echo",
                                            W("n") :> Ref(<<"$", "iteration">>)) >>,
                               None, 2, concurrent) >>,
         connections |-> <<>>],
     impl |-> <<"J", ".", "iteration">> :> { <<Result(PyStr(W("it")))>> }
           @@ <<"J", ".", "b">> :> { <<Result(PyStr(W("b")))>> }]

\* expressions whose evaluation fails, and one that reads the record of Q
FailingExpressions == {PyStr(W("nosuch")), PyStr(<<"1", "/", "0">>)}
Expressions == FailingExpressions \cup {PyStr(W("Q"))}

CondExpression(expr) ==
    PyDict(W("type") :> PyStr(W("expression")) @@ W("expression") :> expr)

\* Q, then a loop E (two iterations at most) with an expression condition,
\* then T
ExprCondWorkflow(expr, concurrent) ==
    [config |->
        [nodes |-> << PlainNode(W("Q"), "echo", <<>>),
                      LoopNode(W("E"), << PlainNode(W("a"), "echo", <<>>) >>,
                               CondExpression(expr), 2, concurrent),
                      PlainNode(W("T"), "echo", <<>>) >>,
         connections |-> <<>>],
     impl |-> W("Q") :> { <<Result(PyStr(W("q")))>> }
           @@ <<"E", ".", "a">> :> { <<Result(PyStr(W("a")))>> }
           @@ W("T") :> { <<Result(PyStr(W("t")))>> }]

\* a loop G (one iteration) is first in the order; its sub-node a and the
\* plain node B after it declare the same inputs as the nodes of
\* InitialWorkflow
InitialLoopFirstWorkflow(concurrent) ==
    [config |->
        [nodes |-> << LoopNode(W("G"),
                               << PlainNode(W("a"), "echo",
                                            W("q") :> PyStr(W("declared"))
                                            @@ W("r") :> Ref(<<"$", "_initial", ".", "q">>)) >>,
                               None, 1, concurrent),
                      PlainNode(W("B"), "echo",
                                W("q") :> PyStr(W("declared"))
                                @@ W("r") :> Ref(<<"$", "_initial", ".", "q">>)) >>,
         connections |-> <<>>],
     impl |-> <<"G", ".", "a">> :> { <<Result(PyStr(W("a")))>> }
           @@ W("B") :> { <<Result(PyStr(W("b")))>> }]

\* the workflows that are run with and without initial inputs
InitialWorkflows == {InitialWorkflow} \cup {InitialLoopFirstWorkflow(m) : m \in BOOLEAN}

Workflows ==
    {ChainWorkflow, IndexWorkflow, DupWorkflow, UnknownTopWorkflow}
    \cup InitialWorkflows
    \cup {ExprCondWorkflow(e, m) : e \in Expressions, m \in BOOLEAN}
    \cup {IterationNameWorkflow(m) : m \in BOOLEAN}
    \cup {UnknownSubWorkflow(m) : m \in BOOLEAN}
    \cup {LoopWorkflow(c, n, m) : c \in LoopConditions, n \in 0..MaxIter, m \in BOOLEAN}
    \cup {SwitchWorkflow(c, d) : c \in SwitchConditions, d \in SwitchDefaults}
    \cup {FaultWorkflow(m) : m \in BOOLEAN}
    \cup {UnsetCondWorkflow(op, m) : op \in CompareOperators, m \in BOOLEAN}

InitRun ==
    /\ \E w \in Workflows :
          /\ config = w.config
          /\ impl = w.impl
          /\ initial_inputs \in (IF w \in InitialWorkflows THEN InitialInputs
                                 ELSE {PyDict(<<>>)})
    /\ pc = "new"
    /\ OrderIdle
    /\ RefIdle
    /\ workflow_state = <<>>
    /\ events = <<>>
    /\ pos = 0
    /\ executed_nodes = {}
    /\ cur = NoCall
    /\ iteration = 0
    /\ sub = 0
    /\ tasks = <<>>
    /\ pending = {}
    /\ queue = <<>>
    /\ selected_nodes = <<>>
    /\ invoked = <<>>
    /\ other = <<>>
    /\ evaluated = 0

NextRun ==
    \/ Construct
    \/ Execute
    \/ Dispatch
    \/ PlainEmit
    \/ PlainFinish
    \/ SwitchSub
    \/ SwitchEmit
    \/ SwitchFinish
    \/ LoopHead
    \/ SeqSub
    \/ SeqEmit
    \/ SeqFinish
    \/ \E id \in DOMAIN tasks : TaskStart(id)
    \/ \E id \in DOMAIN tasks : TaskEmit(id)
    \/ \E id \in DOMAIN tasks : TaskFinish(id)
    \/ CtlWait
    \/ CtlDrain
    \/ CtlResume
    \/ CtlGather
    \/ Cancel
    \/ LoopCond
    \/ LoopSummary

SpecRun == InitRun /\ [][NextRun]_vars

(***************************************************************************)
(* Notions used to state the claims about a run.                           *)
(***************************************************************************)
IsChainRun == config = ChainWorkflow.config
IsIndexRun == config = IndexWorkflow.config
IsLoopRun == config.nodes[1].type = "loop" /\ config.nodes[1].id = W("L")
TheLoop == config.nodes[1]
LoopSub(name) == <<"L", ".", name>>

Calls(node_id) == IF node_id \in DOMAIN invoked THEN invoked[node_id] ELSE <<>>

\* the events of one node, oldest first
EventsOf(node_id) == SeqFilter(events, LAMBDA e : e.node_id = node_id)

\* the events of one node in one loop iteration, oldest first
EventsOfIn(node_id, n) ==
    SeqFilter(events, LAMBDA e : e.node_id = node_id /\ e.loop_iteration = PyInt(n))

Outputs(evs) == [i \in 1..Len(evs) |-> evs[i].output]
Last(q) == q[Len(q)]

\* C5 as stated: with inputs.x = "$B.items[1]", A is called with x = 20 when
\* B's last record is {result: {items: [10, 20, 30]}} and with x unset when
\* it is {result: {items: [10]}}.
C5_IndexIntoRecord ==
    (IsIndexRun /\ Calls(W("A")) # <<>>) =>
        LET x == Calls(W("A"))[1].inputs[W("x")]
        IN /\ workflow_state[W("B")] = RecItems3 => x = PyInt(20)
           /\ workflow_state[W("B")] = RecItems1 => x = None

\* C5 amended: the walk starts at the record itself, so "$B.items[1]" is
\* unset for both records, and it is "$B.result.items[1]" that yields 20
\* for {result: {items: [10, 20, 30]}} and unset for {result: {items: [10]}}.
C5_IndexThroughResult ==
    (IsIndexRun /\ Calls(W("A")) # <<>>) =>
        LET x == Calls(W("A"))[1].inputs[W("x")]
            y == Calls(W("A"))[1].inputs[W("y")]
        IN /\ x = None
           /\ workflow_state[W("B")] = RecItems3 => y = PyInt(20)
           /\ workflow_state[W("B")] = RecItems1 => y = None
           /\ workflow_state[W("B")] \in {RecItems3, RecItems1}

\* A has been called after B's last record {result: {items: [10, 20, 30]}}
C5_Witness ==
    /\ IsIndexRun
    /\ Calls(W("A")) # <<>>
    /\ Outputs(EventsOf(W("B"))) = <<RecItems1, RecItems3>>
    /\ Calls(W("A"))[1].inputs[W("y")] = PyInt(20)

\* position of a top-level id in the declaration list
DeclIndex(node_id) == IndexOf(NodeIds(config), node_id)

\* C6: with no connections the top-level nodes run in declaration order (a
\* node is called only when every node declared before it is Done), and B,
\* declaring text = "$A", is called with the 'result' field of the last
\* record A emitted.
C6_DeclarationOrderAndBareInput ==
    IsChainRun =>
        /\ \A n \in DOMAIN invoked :
             \A m \in Range(NodeIds(config)) :
                 DeclIndex(m) < DeclIndex(n) => m \in executed_nodes
        /\ Calls(W("B")) # <<>> =>
             /\ EventsOf(W("A")) # <<>>
             /\ Calls(W("B"))[1].inputs[W("text")]
                  = Last(EventsOf(W("A"))).output.v[W("result")]

\* A emitted {result: "hi"} once and B was called with text = "hi"
C6_Witness ==
    /\ IsChainRun
    /\ Outputs(EventsOf(W("A"))) = <<Result(PyStr(W("hi")))>>
    /\ Calls(W("B")) # <<>>
    /\ Calls(W("B"))[1].inputs[W("text")] = PyStr(W("hi"))
    /\ pc = "done"

\* the sub-nodes of the loop that a loop body executes
BodySubs == {LoopSub("a"), LoopSub("b")}

\* C7: a sequential loop with max_iterations = N and no condition calls each
\* sub-node of its body exactly N times, once per iteration, and then emits
\* one summary event with output {iteration: N, completed: true}.
C7_SequentialRunsExactlyN ==
    (IsLoopRun /\ ~TheLoop.concurrent /\ TheLoop.condition = None /\ pc = "done") =>
        /\ \A id \in BodySubs :
             /\ Len(Calls(id)) = TheLoop.max_iterations
             /\ \A k \in 1..Len(Calls(id)) : Calls(id)[k].loop_iteration = PyInt(k)
        /\ Outputs(EventsOf(W("L"))) = <<Summary(TheLoop.max_iterations)>>
        /\ Last(events).node_id = W("L")

\* a sequential loop without condition has run MaxIter iterations to its end
C7_Witness ==
    /\ IsLoopRun /\ ~TheLoop.concurrent /\ TheLoop.condition = None
    /\ pc = "done"
    /\ TheLoop.max_iterations = MaxIter
    /\ Len(Calls(LoopSub("a"))) = MaxIter
    /\ Last(events).output = Summary(MaxIter)

\* run-time state as the events up to the end of iteration n leave it
RECURSIVE StateAfter(_, _)
StateAfter(evs, n) ==
    IF evs = <<>> THEN <<>>
    ELSE LET e == Last(evs)
             before == StateAfter(SubSeq(evs, 1, Len(evs) - 1), n)
         IN IF e.loop_iteration # None /\ e.loop_iteration.v <= n
            THEN Put(before, e.node_id, e.output)
            ELSE before

\* the continuation condition as it evaluates after iteration n
ContinuesAfter(n) ==
    \/ ~Truthy(TheLoop.condition)
    \/ EvaluateCondition(TheLoop.condition, StateAfter(events, n), PyStr(W("L"))).value

\* C8: a loop, sequential or concurrent, never starts more bodies than
\* max_iterations, whatever its condition says; it stops after the first
\* iteration whose condition is false or after iteration max_iterations,
\* and its summary counts the bodies executed.
C8_BoundedByMaxIterations ==
    IsLoopRun =>
        /\ iteration <= TheLoop.max_iterations
        /\ \A id \in BodySubs : Len(Calls(id)) <= TheLoop.max_iterations
        /\ pc = "done" =>
             LET n == Len(Calls(LoopSub("b")))
             IN /\ Outputs(EventsOf(W("L"))) = <<Summary(n)>>
                /\ n = TheLoop.max_iterations \/ ~ContinuesAfter(n)
                /\ \A k \in 1..(n - 1) : ContinuesAfter(k)

\* a loop bounded by MaxIter stopped after its first iteration, whose
\* condition evaluated false
C8_Witness ==
    /\ IsLoopRun /\ pc = "done"
    /\ TheLoop.condition = CondUntilTwo
    /\ TheLoop.max_iterations = MaxIter
    /\ Len(Calls(LoopSub("b"))) = 1
    /\ ~ContinuesAfter(1)

\* C9: when a concurrent iteration has passed its barrier, the events of
\* the iteration carry, for each sub-node, exactly the records it put on
\* the queue, each once, none is left on the queue, and run-time state
\* holds the last record of each sub-node that emitted.
C9_ConcurrentFanIn ==
    (IsLoopRun /\ TheLoop.concurrent /\ pc = "loop_cond") =>
        /\ queue = <<>>
        /\ \A i \in 1..Len(TheLoop.nodes) :
             LET t == tasks[<<iteration, i>>]
                 id == Scoped(W("L"), TheLoop.nodes[i].id)
             IN /\ Outputs(EventsOfIn(id, iteration)) = t.emitted
                /\ t.emitted # <<>> => workflow_state[id] = Last(t.emitted)

\* the barrier was passed with b's record between two records of a
C9_Witness ==
    /\ IsLoopRun /\ TheLoop.concurrent /\ pc = "loop_cond"
    /\ iteration = 1
    /\ [i \in 1..Len(events) |-> events[i].node_id]
         = <<LoopSub("a"), LoopSub("b"), LoopSub("a")>>
    /\ workflow_state[LoopSub("a")] = Result(PyInt(2))

\* C10: no task of iteration k+1 exists, and the condition of iteration k is
\* not evaluated, before every task of iteration k has finished; the events
\* of an iteration precede those of the next.
C10_IterationBarrier ==
    (IsLoopRun /\ TheLoop.concurrent) =>
        /\ \A id \in DOMAIN tasks : id[1] < iteration => tasks[id].st = "done"
        /\ pc = "loop_cond" => \A id \in DOMAIN tasks : tasks[id].st = "done"
        /\ \A i, j \in 1..Len(events) :
             (i < j /\ events[i].loop_iteration # None /\ events[j].loop_iteration # None)
                => events[i].loop_iteration.v <= events[j].loop_iteration.v

\* a task of iteration 2 is running after the events of iteration 1
C10_Witness ==
    /\ IsLoopRun /\ TheLoop.concurrent
    /\ iteration = 2
    /\ tasks[<<2, 1>>].st = "run"
    /\ tasks[<<1, 1>>].emitted # <<>>
    /\ \E i \in 1..Len(events) : events[i].loop_iteration = PyInt(2)

\* the loop declared in the workflow of the run, and the state key of its
\* i-th sub-node
HasLoop == \E n \in Range(config.nodes) : n.type = "loop"
RunLoop == CHOOSE n \in Range(config.nodes) : n.type = "loop"
RunLoopSub(i) == Scoped(RunLoop.id, RunLoop.nodes[i].id)

\* C11: in concurrent mode, at every moment and under every interleaving of
\* the sub-node tasks with the draining controller, the events that carry a
\* sub-node's id in an iteration are, in stream order, the first records
\* that sub-node's task emitted in that iteration, in emission order.
C11_PerSubNodeOrderPreserved ==
    \A id \in DOMAIN tasks :
        IsPrefix(Outputs(EventsOfIn(RunLoopSub(id[2]), id[1])), tasks[id].emitted)

\* both records of the streaming sub-node have been forwarded, in order,
\* around a record of its sibling, while the iteration is still being drained
C11_Witness ==
    /\ IsLoopRun /\ TheLoop.concurrent
    /\ pc = "c_yield"
    /\ iteration = 1
    /\ Outputs(events) = <<Result(PyInt(1)), Result(PyStr(W("b"))), Result(PyInt(2))>>
    /\ tasks[<<1, 1>>].emitted = <<Result(PyInt(1)), Result(PyInt(2))>>

IsSwitchRun == \E n \in Range(config.nodes) : n.type = "switch"
TheSwitch == CHOOSE n \in Range(config.nodes) : n.type = "switch"
SwitchSubKey(name) == <<"S", ".", name>>
SwitchSubKeys == {SwitchSubKey(name) : name \in {"p", "u", "q", "one", "d"}}

\* the value the switch's condition denotes once K has run: K's result for
\* the reference and for the expression, the literal otherwise
SwitchValue ==
    IF TheSwitch.condition = PyBool(TRUE) THEN PyBool(TRUE)
    ELSE workflow_state[W("K")].v[W("result")]

\* the sub-nodes the switch has to run: p for "x" (the first of the two
\* cases with that value; u, listed with p, has no implementation), one for
\* a value equal to 1, else d when a default is declared, else none
SwitchExpected ==
    IF SwitchValue = PyStr(W("x")) THEN {SwitchSubKey("p")}
    ELSE IF SwitchValue = PyBool(TRUE) THEN {SwitchSubKey("one")}
    ELSE IF TheSwitch.default # None THEN {SwitchSubKey("d")}
    ELSE {}

\* C12: a switch selects the sub-nodes of the first case, in declared
\* order, whose value equals its condition value, else those of its default
\* when it has one, else nothing: only selected sub-nodes are ever called
\* or appear in events, each selected sub-node has been called once when
\* the switch is Done, the selection made at the switch's entry stays fixed
\* while its sub-nodes run, and with nothing selected no sub-node is called
\* and no event carries the switch's id or a sub-node's.
C12_SwitchSelectsFirstMatchOrDefault ==
    (IsSwitchRun /\ W("K") \in executed_nodes) =>
        /\ \A key \in SwitchSubKeys \ SwitchExpected :
             Calls(key) = <<>> /\ EventsOf(key) = <<>>
        /\ EventsOf(W("S")) = <<>>
        /\ pc \in {"sw", "sw_run"} =>
             {Scoped(W("S"), selected_nodes[i].id) : i \in 1..Len(selected_nodes)}
                 \ {SwitchSubKey("u")} = SwitchExpected
        /\ W("S") \in executed_nodes =>
             \A key \in SwitchExpected : Len(Calls(key)) = 1

\* K emitted "z", the switch took its default, and the run went on to T
C12_Witness ==
    /\ IsSwitchRun
    /\ pc = "done"
    /\ TheSwitch.condition = Ref(<<"$", "K">>)
    /\ workflow_state[W("K")] = Result(PyStr(W("z")))
    /\ Len(Calls(SwitchSubKey("d"))) = 1
    /\ Calls(SwitchSubKey("p")) = <<>>
    /\ EventsOf(W("T")) # <<>>

\* Claims stated on SpecResolve that involve the scope.
RefScopedKey == Scoped(refIn.scope, RefSourceKey)
RefShadowed ==
    /\ pc = "resolved"
    /\ RefIsBare
    /\ RefSourceKey \in DOMAIN refIn.state
    /\ RefScopedKey \in DOMAIN refIn.state

\* what a bare reference to an entry denotes: the convention for a mapping,
\* the entry itself otherwise
EntryValue(entry) == IF IsDict(entry) THEN BareExpected(entry) ELSE entry

\* C13 as stated: when the state holds both a top-level entry x and the
\* scoped entry loopId.x, a loop sub-node's unscoped reference $x resolves
\* to the scoped entry.
C13_ScopedEntryFirst ==
    RefShadowed => refOut.sub = EntryValue(refIn.state[RefScopedKey])

\* C13 amended: when the state holds both a top-level entry x and the
\* scoped entry loopId.x, a loop sub-node's unscoped reference $x resolves
\* to the top-level entry; the scoped entry is what it resolves to only
\* when there is no top-level entry x.
C13_TopLevelEntryFirst ==
    /\ RefShadowed => refOut.sub = EntryValue(refIn.state[RefSourceKey])
    /\ (/\ pc = "resolved" /\ RefIsBare
        /\ RefSourceKey \notin DOMAIN refIn.state
        /\ RefScopedKey \in DOMAIN refIn.state)
         => refOut.sub = EntryValue(refIn.state[RefScopedKey])

\* $B was resolved for a sub-node of L against a state holding B with the
\* result "top" and L.B with the result "hi", and gave "top"
C13_Witness ==
    /\ RefShadowed
    /\ refIn.state[RefSourceKey] = PyDict(W("result") :> PyStr(W("top")))
    /\ EntryValue(refIn.state[RefScopedKey]) = PyStr(W("hi"))
    /\ refOut.sub = PyStr(W("top"))

\* C14: within a run the set of state keys only grows: every step of the
\* run, whether a node's record, a loop iteration, a drained record, a
\* committed result, a summary or a switch sub-node's record, leaves every
\* key of the state in place.
C14_StateKeysOnlyGrow ==
    [][DOMAIN workflow_state \subseteq DOMAIN workflow_state']_vars

\* two iterations of a loop have overwritten the iteration counter's key
\* and the keys of both sub-nodes, and the summary has been added
C14_Witness ==
    /\ IsLoopRun
    /\ pc = "done"
    /\ iteration = 2
    /\ workflow_state[Scoped(W("L"), W("iteration"))] = Result(PyInt(2))
    /\ Len(EventsOf(LoopSub("b"))) = 2
    /\ DOMAIN workflow_state
         = {Scoped(W("L"), W("iteration")), LoopSub("a"), LoopSub("b"), W("L")}

\* C15: when the invocation of a plain node, of a switch sub-node or of a
\* sequential loop sub-node ends normally after at least one record, the
\* state entry at its key is the last record of that invocation; when a
\* concurrent iteration passes its barrier, the entry at the key of every
\* sub-node that emitted in the iteration is the last record it emitted.
C15_StateHoldsLastRecord ==
    [][/\ (/\ pc \in {"plain", "sw_run", "seq_run"}
           /\ pc' \in {"dispatch", "sw", "seq"}
           /\ cur.emitted # <<>>)
          => workflow_state'[cur.node_id] = Last(cur.emitted)
       /\ (pc = "c_gather" /\ pc' = "loop_cond")
          => \A i \in 1..Len(RunLoop.nodes) :
                 tasks[<<iteration, i>>].emitted # <<>>
                    => workflow_state'[RunLoopSub(i)] = Last(tasks[<<iteration, i>>].emitted)
      ]_vars

\* the switch sub-node p has finished after two records and the state
\* holds the second; a's entry in a concurrent loop is covered by the
\* barrier of C9
C15_Witness ==
    /\ IsSwitchRun
    /\ W("S") \in executed_nodes
    /\ Outputs(EventsOf(SwitchSubKey("p"))) = <<Result(PyInt(1)), Result(PyInt(2))>>
    /\ workflow_state[SwitchSubKey("p")] = Result(PyInt(2))

IsDupRun == config = DupWorkflow.config

\* C16: every top-level id is executed at most once in a run, also when the
\* execution order lists it more than once: a plain node is called at most
\* once, a loop emits at most one summary, a switch sub-node is called at
\* most once, and no call is in progress for an id that is Done.
C16_TopLevelExecutedAtMostOnce ==
    pc \notin {"start", "load", "ordered", "ref", "resolved"} =>
        /\ \A n \in Range(NodeIds(config)) :
             /\ Len(Calls(n)) <= 1
             /\ NodeConfig(n).type = "loop" => Len(EventsOf(n)) <= 1
             /\ n \in executed_nodes => cur.node_id # n
        /\ \A key \in SwitchSubKeys : Len(Calls(key)) <= 1

\* the order A, B, A has been walked to its end and A was called once
C16_Witness ==
    /\ IsDupRun
    /\ pc = "done"
    /\ node_order = <<W("A"), W("B"), W("A")>>
    /\ Len(Calls(W("A"))) = 1
    /\ [i \in 1..Len(events) |-> events[i].node_id] = <<W("A"), W("B"), W("B")>>

IsFaultRun == \E m \in BOOLEAN : config = FaultWorkflow(m).config

\* a node implementation has raised: the generator has ended with the
\* exception, or a task of a concurrent iteration has ended with it
NodeFaulted == pc = "fault" \/ \E id \in DOMAIN tasks : tasks[id].st = "failed"

\* C17: once a node implementation has raised, no further node is called
\* and no further Execution Event is emitted in the run, events of sibling
\* tasks of the same concurrent iteration included, and the events emitted
\* before the fault stay in the stream.
C17_FaultAbortsRemainder ==
    [][(IsFaultRun /\ NodeFaulted) => (events' = events /\ invoked' = invoked)]_vars

\* a frame that tells the consumer of an error: it has an error field, or
\* the event it carries has one
IsErrorFrame(frame) == "error" \in DOMAIN frame \/ "error" \in DOMAIN frame.data

\* C18: when a node has raised and the run has ended with its fault, the
\* last thing the stream consumer received is a terminal error event; the
\* stream is not just cut short.
C18_FaultEndsWithErrorEvent ==
    (IsFaultRun /\ pc = "fault") => (SseStream # <<>> /\ IsErrorFrame(Last(SseStream)))

IsUnsetCondRun ==
    \E op \in CompareOperators, m \in BOOLEAN : config = UnsetCondWorkflow(op, m).config

\* C19: a loop condition that compares an unset value never aborts the
\* run, whatever the operator among ==, !=, >, <, >=, <=, in, not_in.
C19_UnsetOperandNeverAborts == IsUnsetCondRun => pc # "fault"

\* C20: once the consumer has stopped consuming during a concurrent
\* iteration, the iteration's outstanding tasks make no further node
\* emission and no further node is called.
C20_CancelAbandonsTasks ==
    [][pc = "cancelled" =>
          /\ \A id \in DOMAIN tasks : tasks'[id].emitted = tasks[id].emitted
          /\ invoked' = invoked]_vars

\* a declaration whose type is neither a control-flow type nor registered
IsUnknownType(decl) == decl.type \notin {"loop", "switch"} \cup NodeRegistry

\* the step about to be taken meets a declaration of an unregistered type:
\* the construction of the engine, the head of a sequential loop body or of
\* a switch branch, or the start of a concurrent task
MeetsUnknownType ==
    \/ pc = "new" /\ \E i \in 1..Len(config.nodes) : IsUnknownType(config.nodes[i])
    \/ pc = "seq" /\ sub <= Len(loop_nodes) /\ IsUnknownType(loop_nodes[sub])
    \/ pc = "sw" /\ sub <= Len(selected_nodes) /\ IsUnknownType(selected_nodes[sub])

MeetsUnknownTypeInTask(id) ==
    Suspended /\ tasks[id].st = "new" /\ IsUnknownType(loop_nodes[id[2]])

\* C21: a node declaration whose type is not in the Node Registry always
\* produces a failure where the engine meets it, at the top level, in a
\* loop body and in a switch branch alike; it is never passed over.
C21_UnknownTypeIsHardFailure ==
    [][/\ MeetsUnknownType => pc' \in {"load_fault", "fault"}
       /\ \A id \in DOMAIN tasks :
             (MeetsUnknownTypeInTask(id) /\ tasks'[id] # tasks[id])
                => tasks'[id].st = "failed"]_vars

(***************************************************************************)
(* Specification SpecTwoRuns: two runs of execute() on one loaded engine,  *)
(* each with its own initial inputs, interleaved at their suspension       *)
(* points.                                                                 *)
(***************************************************************************)
InitTwoRuns ==
    /\ config = InitialWorkflow.config
    /\ impl = InitialWorkflow.impl
    /\ \E mine \in InitialInputs, theirs \in InitialInputs :
          /\ initial_inputs = mine
          /\ other = NewFrame(theirs)
    /\ pc = "start"
    /\ OrderIdle
    /\ RefIdle
    /\ workflow_state = <<>>
    /\ events = <<>>
    /\ pos = 0
    /\ executed_nodes = {}
    /\ cur = NoCall
    /\ iteration = 0
    /\ sub = 0
    /\ tasks = <<>>
    /\ pending = {}
    /\ queue = <<>>
    /\ selected_nodes = <<>>
    /\ invoked = <<>>
    /\ evaluated = 0

NextTwoRuns ==
    \/ Execute
    \/ Dispatch
    \/ PlainEmit
    \/ PlainFinish
    \/ SwitchRun

SpecTwoRuns == InitTwoRuns /\ [][NextTwoRuns]_vars

\* the output of the last event of a key in a stream of events
LastOutputOf(evs, key) ==
    LET last == CHOOSE i \in 1..Len(evs) :
                    evs[i].node_id = key /\ \A j \in (i + 1)..Len(evs) : evs[j].node_id # key
    IN evs[last].output

\* the run-time state a run's own initial inputs and own events account for
OwnState(f) ==
    LET keys == {f.events[i].node_id : i \in 1..Len(f.events)}
        base == IF Truthy(f.initial_inputs) THEN {W("_initial")} ELSE {}
    IN [k \in keys \cup base |->
           IF k \in keys THEN LastOutputOf(f.events, k) ELSE f.initial_inputs]

\* the value of q a run was started with
OwnInitialQ(f) ==
    IF Truthy(f.initial_inputs) THEN f.initial_inputs.v[W("q")] ELSE None

\* a run's state and the inputs of its calls come from that run alone
RunIsIndependent(f) ==
    f.pc # "start" =>
        /\ f.workflow_state = OwnState(f)
        /\ \A n \in DOMAIN f.invoked :
              /\ Len(f.invoked[n]) = 1
              /\ f.invoked[n][1].inputs[W("r")] = OwnInitialQ(f)
        /\ W("B") \in DOMAIN f.invoked =>
              f.invoked[W("B")][1].inputs[W("a")] = Bare(LastOutputOf(f.events, W("A")))

InLoopBody == pc \in {"seq", "seq_run", "c_wait", "c_drain", "c_yield", "c_gather"}

IsIterationNameRun == \E m \in BOOLEAN : config = IterationNameWorkflow(m).config

\* what C23 asks of one step of the run
IterationCounterStep ==
    /\ InLoopBody =>
          /\ iteration >= 1
          /\ workflow_state[IterationKey] = Result(PyInt(iteration))
    /\ (InLoopBody /\ Len(events') > Len(events)) =>
          Last(events').loop_iteration = PyInt(iteration)
    /\ iteration' # iteration =>
          /\ iteration' = iteration + 1
          /\ workflow_state'[IterationKey] = Result(PyInt(iteration'))
    /\ (pc = "dispatch" /\ pc' = "loop_head") =>
          /\ iteration' = 0
          /\ workflow_state'[IterationKey] = Result(PyInt(0))

\* C23: the counter of a loop starts at 0 and increases by exactly 1 per
\* iteration; throughout the body of iteration n the state key
\* loopId.iteration holds {result: n}, and every sub-node event produced in
\* that iteration carries loop_iteration = n.
C23_IterationCounterLive == [][IterationCounterStep]_vars

\* the top-level loops that have terminated
FinishedLoops ==
    {n \in Range(NodeIds(config)) : NodeConfig(n).type = "loop" /\ n \in executed_nodes}

\* the state keys of a loop's sub-nodes
SubKeysOf(n) == {Scoped(n, NodeConfig(n).nodes[i].id) : i \in 1..Len(NodeConfig(n).nodes)}

\* the loop has emitted one summary event, after every event of its
\* sub-nodes, and its output is {iteration: finalCount, completed: true}
SummaryEventOnceAndLast(n) ==
    /\ Len(EventsOf(n)) = 1
    /\ EventsOf(n)[1].output =
           PyDict(W("iteration") :> PyInt(iteration) @@ W("completed") :> PyBool(TRUE))
    /\ EventsOf(n)[1].loop_iteration = None
    /\ \A i, j \in 1..Len(events) :
          (events[i].node_id = n /\ events[j].node_id \in SubKeysOf(n)) => j < i

\* C24 as stated: when a loop has terminated, the record stored in state at
\* the loop's own id is the summary record {iteration: finalCount,
\* completed: true}, the same record the summary event carries as its
\* output; that event is emitted exactly once and is the last event the
\* loop emits.
C24_SummaryRecordInState ==
    \A n \in FinishedLoops :
        /\ SummaryEventOnceAndLast(n)
        /\ workflow_state[n] = EventsOf(n)[1].output

\* C24 as the code has it: when a loop has terminated, the record stored in
\* state at the loop's own id is {result: S}, where S = {iteration:
\* finalCount, completed: true} is the output of the summary event, so that
\* the bare reference "$loopId" resolves to S; the summary event is emitted
\* exactly once and is the last event the loop emits.
C24_SummaryWrappedInState ==
    \A n \in FinishedLoops :
        /\ SummaryEventOnceAndLast(n)
        /\ workflow_state[n] = PyDict(W("result") :> EventsOf(n)[1].output)
        /\ ResolveRef(<<"$">> \o n, workflow_state) = EventsOf(n)[1].output

\* the loop L has terminated after two iterations in which its sub-nodes
\* emitted, and the run is over
C24_Witness ==
    /\ IsLoopRun
    /\ pc = "done"
    /\ W("L") \in executed_nodes
    /\ iteration = 2
    /\ Len(events) >= 4
    /\ Last(events).node_id = W("L")
    /\ workflow_state[W("L")].v[W("result")].v[W("iteration")] = PyInt(2)

\* the first segment of the request's path after the source key, where it
\* has the form key[idx] with a key and a decimal index
RefFirstSegment == PathParts(refIn.path)[2]
RefIsIndexed ==
    /\ Len(PathParts(refIn.path)) >= 2
    /\ Contains(RefFirstSegment, "[") /\ Contains(RefFirstSegment, "]")
    /\ 1 < FirstIndex(RefFirstSegment, "[")
    /\ FirstIndex(RefFirstSegment, "[") + 1 < FirstIndex(RefFirstSegment, "]")
    /\ \A k \in (FirstIndex(RefFirstSegment, "[") + 1)..(FirstIndex(RefFirstSegment, "]") - 1) :
          RefFirstSegment[k] \in DecimalDigits
RefIndexKey == SubSeq(RefFirstSegment, 1, FirstIndex(RefFirstSegment, "[") - 1)
RefIndex ==
    DecimalValue(SubSeq(RefFirstSegment, FirstIndex(RefFirstSegment, "[") + 1,
                        FirstIndex(RefFirstSegment, "]") - 1))

\* the entry of the source key narrowed by the segment's key
RefNarrowed == DictGet(refIn.state[RefSourceKey], RefIndexKey)

\* a key[idx] segment is applied to a mapping entry found directly
RefIndexApplies ==
    /\ pc = "resolved"
    /\ RefIsIndexed
    /\ RefSourceKey \in DOMAIN refIn.state
    /\ IsDict(refIn.state[RefSourceKey])

\* C25: for a path segment key[idx] the value is narrowed by the field key
\* and then indexed; where the narrowed value is not an ordered sequence or
\* idx is out of range, the whole reference resolves to the unset value,
\* whatever segments follow.
C25_IndexSegmentUnsetOnMiss ==
    RefIndexApplies =>
        /\ (IsList(RefNarrowed) /\ RefIndex < Len(RefNarrowed.v) /\ Len(PathParts(refIn.path)) = 2)
              => (refOut.top = RefNarrowed.v[RefIndex + 1]
                  /\ refOut.nested = RefNarrowed.v[RefIndex + 1])
        /\ (~IsList(RefNarrowed) \/ RefIndex >= Len(RefNarrowed.v))
              => (refOut.top = None /\ refOut.nested = None)

\* the request's path has a segment with a bracket in it
RefHasBracket ==
    \E k \in 1..Len(refIn.path) : refIn.path[k] \in {"[", "]"}

\* C26: for every path reference, key[idx] segments included, and every
\* state in which the source key is found directly, the value resolved for
\* a top-level node's input, for a loop or switch sub-node's input and for
\* a condition operand is the same.
C26_ResolversAgree ==
    (pc = "resolved" /\ RefSourceKey \in DOMAIN refIn.state) =>
        /\ refOut.sub = refOut.top
        /\ refOut.cond = refOut.top
        /\ refOut.condNoScope = refOut.top

\* the structured specs with their path leaf replaced by a value
MapOf(value) == PyDict(W("m") :> value @@ W("k") :> Literal)
ListOf(value) == PyList(<<value, Literal>>)

\* C27: an input spec that is a mapping or a sequence is resolved
\* member-wise at every nesting depth, keeping its keys, length and order:
\* each leaf that is a path string is replaced by its resolved value and
\* each other leaf is passed through, for top-level nodes and for
\* sub-nodes alike.
C27_StructuredSpecsResolvedAtEveryDepth ==
    pc = "resolved" =>
        /\ refOut.inMap = MapOf(refOut.top)
        /\ refOut.inList = ListOf(refOut.top)
        /\ refOut.inMapList = PyDict(W("l") :> ListOf(refOut.top) @@ W("k") :> Literal)
        /\ refOut.inMapMap = PyDict(W("d") :> MapOf(refOut.top) @@ W("k") :> Literal)
        /\ refOut.subMap = MapOf(refOut.sub)
        /\ refOut.subList = ListOf(refOut.sub)

IsFailingExprRun ==
    \E e \in FailingExpressions, m \in BOOLEAN : config = ExprCondWorkflow(e, m).config

\* the node ids of the events, in stream order
EventIds == [i \in 1..Len(events) |-> events[i].node_id]

OwnerOf(key) == <<key[1]>>
OwnerPos(key) ==
    CHOOSE i \in 1..Len(orderResult.order) :
        /\ orderResult.order[i] = OwnerOf(key)
        /\ \A j \in 1..(i - 1) : orderResult.order[j] # OwnerOf(key)

\* a key of a sub-node of a sequential loop, and the sub-node's place in
\* the loop's declaration
IsSeqLoopSubKey(key) ==
    /\ Len(key) = 3
    /\ NodeConfig(OwnerOf(key)).type = "loop"
    /\ ~NodeConfig(OwnerOf(key)).concurrent
SubIndexOf(key) ==
    CHOOSE i \in 1..Len(NodeConfig(OwnerOf(key)).nodes) :
        NodeConfig(OwnerOf(key)).nodes[i].id = <<key[3]>>

\* event i does not belong after event j
OrderedPair(i, j) ==
    /\ OwnerPos(events[i].node_id) <= OwnerPos(events[j].node_id)
    /\ (/\ OwnerOf(events[i].node_id) = OwnerOf(events[j].node_id)
        /\ IsSeqLoopSubKey(events[i].node_id)
        /\ IsSeqLoopSubKey(events[j].node_id))
          => \/ events[i].loop_iteration.v < events[j].loop_iteration.v
             \/ /\ events[i].loop_iteration = events[j].loop_iteration
                /\ SubIndexOf(events[i].node_id) <= SubIndexOf(events[j].node_id)

\* C29: top-level nodes and the sub-nodes of a sequential loop execute in
\* strict order: when a node is invoked, every node before it in the
\* execution order (within an iteration: every sub-node declared before
\* it) has emitted its last record, so all events of an earlier node
\* precede all events of a later one.
C29_StrictOrder ==
    /\ \A i, j \in 1..Len(events) : i < j => OrderedPair(i, j)
    /\ (pc = "plain" /\ cur.emitted = <<>>) =>
          /\ OwnerPos(cur.node_id) = pos
          /\ \A i \in 1..Len(events) : OwnerPos(events[i].node_id) < pos
          /\ \A k \in 1..(pos - 1) : orderResult.order[k] \in executed_nodes
    /\ (pc = "seq_run" /\ cur.emitted = <<>>) =>
          \A i \in 1..Len(events) :
              \/ OwnerPos(events[i].node_id) < pos
              \/ events[i].loop_iteration.v < iteration
              \/ SubIndexOf(events[i].node_id) < sub

\* P, the sequential loop F with both sub-nodes emitting, F's summary and R
\* have run, in that order
C29_Witness ==
    /\ config = FaultWorkflow(FALSE).config
    /\ pc = "done"
    /\ EventIds = <<W("P"), <<"F", ".", "a">>, <<"F", ".", "b">>, <<"F", ".", "b">>,
                   W("F"), W("R")>>

IsInitialRun == \E w \in InitialWorkflows : config = w.config

\* the declared inputs of the node a call was issued to
DeclaredInputsOf(key) ==
    IF Len(key) = 1 THEN NodeConfig(key).inputs
    ELSE LET body == NodeConfig(OwnerOf(key)).nodes
         IN body[CHOOSE i \in 1..Len(body) : body[i].id = <<key[3]>>].inputs

\* the node is plain, first in the execution order, and the caller
\* supplied initial inputs
IsFirstPlainWithInitial(key) ==
    /\ key = orderResult.order[1]
    /\ NodeConfig(key).type \notin {"loop", "switch"}
    /\ Truthy(initial_inputs)

\* C30: the caller's initial inputs are merged into the resolved inputs of
\* the node that is first in the execution order, and only if it is a
\* plain node; on a name clash the initial value replaces the declared
\* input's value; no other node, sub-nodes of a first loop included, is
\* given them, except through a reference to the key _initial.
C30_InitialInputsOnlyToFirstPlainNode ==
    IsInitialRun =>
        \A key \in DOMAIN invoked : \A k \in 1..Len(invoked[key]) :
            LET inputs == invoked[key][k].inputs
                declared == DOMAIN DeclaredInputsOf(key)
            IN /\ inputs[W("r")] = OwnInitialQ(Frame)
               /\ IF IsFirstPlainWithInitial(key)
                  THEN /\ DOMAIN inputs = declared \cup DOMAIN initial_inputs.v
                       /\ \A name \in DOMAIN initial_inputs.v :
                             inputs[name] = initial_inputs.v[name]
                  ELSE /\ DOMAIN inputs = declared
                       /\ inputs[W("q")] = PyStr(W("declared"))

\* A, first in the order, was called with the caller's q in place of its
\* declared q and with the caller's x; B was called with its declared q and
\* reads the caller's q through "$_initial.q"
C30_Witness ==
    /\ config = InitialWorkflow.config
    /\ pc = "done"
    /\ initial_inputs = PyDict(W("q") :> PyStr(W("init2")) @@ W("x") :> PyStr(W("extra")))
    /\ invoked[W("A")][1].inputs[W("q")] = PyStr(W("init2"))
    /\ invoked[W("A")][1].inputs[W("x")] = PyStr(W("extra"))
    /\ invoked[W("B")][1].inputs[W("q")] = PyStr(W("declared"))
    /\ invoked[W("B")][1].inputs[W("r")] = PyStr(W("init2"))

\* the controller of a concurrent loop is at its head or inside an
\* iteration, or its generator was closed inside one
InConcurrentLoop ==
    /\ pc \in {"loop_head", "c_wait", "c_drain", "c_yield", "c_gather", "cancelled"}
    /\ CurrentConfig.concurrent

\* the state keys a step writes
WrittenKeys ==
    {key \in DOMAIN workflow_state' :
        key \notin DOMAIN workflow_state \/ workflow_state'[key] # workflow_state[key]}

\* the step is one of a sub-node task, not of the controller
IsTaskStep == \E id \in DOMAIN tasks : tasks'[id] # tasks[id]

\* the write is the controller's publication of the counter, or the
\* controller's commit of a record that the child of that key emitted in
\* this iteration
IsOwnWrite(key) ==
    \/ /\ pc = "loop_head"
       /\ key = IterationKey
       /\ workflow_state'[key] = Result(PyInt(iteration'))
    \/ /\ pc \in {"c_drain", "c_gather"}
       /\ \E i \in 1..Len(loop_nodes) :
             /\ key = SubId(i)
             /\ \E k \in 1..Len(tasks[<<iteration, i>>].emitted) :
                   workflow_state'[key] = tasks[<<iteration, i>>].emitted[k]

\* C31: in concurrent loop mode every write to state during an iteration
\* of loop L is to L.iteration or to L.childId with a record that same
\* child emitted, and it is performed by the controller, while draining
\* the queue or at the barrier, never by a sub-node task.
C31_ConcurrentWritesOwnKeyByController ==
    [][InConcurrentLoop =>
          /\ IsTaskStep => workflow_state' = workflow_state
          /\ \A key \in WrittenKeys : IsOwnWrite(key)]_vars

\* the controller has committed records of both sub-nodes of one
\* concurrent iteration, each under its own key, and is at the barrier
C31_Witness ==
    /\ IsLoopRun
    /\ TheLoop.concurrent
    /\ pc = "c_gather"
    /\ iteration = 1
    /\ LoopSub("a") \in DOMAIN workflow_state
    /\ LoopSub("b") \in DOMAIN workflow_state
    /\ workflow_state[LoopSub("a")] \in Range(tasks[<<1, 1>>].emitted)
    /\ workflow_state[LoopSub("b")] \in Range(tasks[<<1, 3>>].emitted)

\* the state the tasks of iteration k of loop L are started with: the
\* records of the earlier iterations and the counter
StateAtIterationStart(k) ==
    Put(StateAfter(events, k - 1), Scoped(W("L"), W("iteration")), Result(PyInt(k)))

\* C32: in a concurrent loop every task of iteration k resolves its inputs
\* against the state as it was when the iteration's tasks were started: no
\* input reflects a record a sibling emitted during iteration k.
C32_TaskInputsFromIterationStart ==
    (IsLoopRun /\ TheLoop.concurrent) =>
        \A i \in 1..Len(TheLoop.nodes) :
            LET key == Scoped(W("L"), TheLoop.nodes[i].id)
            IN \A k \in 1..Len(Calls(key)) :
                  /\ Calls(key)[k].loop_iteration = PyInt(k)
                  /\ Calls(key)[k].inputs =
                         ResolveInputsForSubnode(TheLoop.nodes[i].inputs,
                                                 StateAtIterationStart(k), W("L")).inputs

\* in iteration 1 the controller has committed a record of a while b, which
\* reads "$a", was called with the unset value
C32_Witness ==
    /\ IsLoopRun
    /\ TheLoop.concurrent
    /\ iteration = 1
    /\ LoopSub("a") \in DOMAIN workflow_state
    /\ Len(Calls(LoopSub("b"))) = 1
    /\ Calls(LoopSub("b"))[1].inputs[W("v")] = None
    /\ tasks[<<1, 3>>].st = "run"


(***************************************************************************)
(* C33: the continuation condition is a post-test.                         *)
(***************************************************************************)
\* the run is inside _execute_loop
InLoop ==
    /\ (InLoopBody \/ pc \in {"loop_head", "loop_cond", "loop_summary"})
    /\ CurrentConfig.type = "loop"

\* the loop declares a continuation condition (line 366)
HasCondition == Truthy(CurrentConfig.condition)

\* sub-node i of the loop being executed is one the body calls
IsCalledSub(i) ==
    /\ loop_nodes[i].type \in NodeRegistry
    /\ loop_nodes[i].type \notin {"loop", "switch"}

\* every callable sub-node of the body has been called in iteration n
BodyHasRun(n) ==
    \A i \in 1..Len(loop_nodes) :
        IsCalledSub(i) =>
            \E c \in 1..Len(Calls(SubId(i))) :
                Calls(SubId(i))[c].loop_iteration = PyInt(n)

\* the evaluations of the condition so far, against the iterations begun
EvaluationsFollowBodies ==
    InLoop =>
        /\ ~HasCondition => evaluated = 0
        /\ (HasCondition /\ (InLoopBody \/ pc = "loop_cond")) =>
               /\ iteration >= 1
               /\ evaluated = iteration - 1
        /\ (HasCondition /\ pc \in {"loop_head", "loop_summary"}) =>
               evaluated = iteration
        /\ pc = "loop_cond" => BodyHasRun(iteration)
        /\ (pc = "loop_summary" /\ CurrentConfig.max_iterations >= 1) =>
               /\ iteration >= 1
               /\ BodyHasRun(1)

\* C33: a loop's continuation condition is evaluated only after a full
\* iteration body has run: with max_iterations >= 1 the body runs at least
\* once, whatever the condition would give against the state at loop entry,
\* and the condition is evaluated exactly once per completed iteration (the
\* number of evaluations is the number of completed bodies, and a step
\* evaluates the condition only when the body of the current iteration has
\* run and has not been followed by an evaluation yet).
C33_ConditionIsPostTest ==
    [][ /\ EvaluationsFollowBodies
        /\ (InLoop /\ evaluated' # evaluated) =>
               /\ pc = "loop_cond"
               /\ BodyHasRun(iteration)
               /\ evaluated = iteration - 1
               /\ evaluated' = iteration
               /\ iteration' = iteration ]_vars

\* a loop whose condition is false against the state at loop entry, and after
\* the body, has run its body once, evaluated the condition once and stopped
C33_Witness ==
    /\ \E m \in BOOLEAN : config = UnsetCondWorkflow("==", m).config
    /\ pc = "done"
    /\ evaluated = 1
    /\ Len(Calls(<<"U", ".", "a">>)) = 1


(***************************************************************************)
(* C34: termination.  The runs of workflows whose nodes emit finitely many *)
(* records and raise no fault, under the scheduling the code relies on:    *)
(* the consumer keeps asking execute() for the next event (so the          *)
(* controller is never closed and always resumes, asyncio.wait returning   *)
(* after its 0.01 s timeout at the latest), and the event loop runs the    *)
(* tasks that are ready whenever the controller is suspended.  A task can  *)
(* only run while the controller is suspended, so its steps are enabled    *)
(* off and on while the controller polls: the fairness for the tasks is    *)
(* strong.                                                                 *)
(***************************************************************************)
\* no call of a node of w raises; every output sequence of the model is finite
NodesFaultFree(w) ==
    \A id \in DOMAIN w.impl : \A outs \in w.impl[id] :
        \A i \in 1..Len(outs) : ~IsRaise(outs[i])

FaultFreeWorkflows == {w \in Workflows : NodesFaultFree(w)}

InitRunFair ==
    /\ InitRun
    /\ \E w \in FaultFreeWorkflows : config = w.config /\ impl = w.impl

\* the steps of the generators execute, _execute_nodes and _execute_loop,
\* driven by the consumer
ControllerStep ==
    \/ Construct \/ Execute \/ Dispatch \/ PlainEmit \/ PlainFinish
    \/ SwitchSub \/ SwitchEmit \/ SwitchFinish
    \/ LoopHead \/ SeqSub \/ SeqEmit \/ SeqFinish
    \/ CtlWait \/ CtlDrain \/ CtlResume \/ CtlGather
    \/ LoopCond \/ LoopSummary

\* the steps of the tasks made by asyncio.create_task (line 343)
TaskStep ==
    \E id \in DOMAIN tasks : TaskStart(id) \/ TaskEmit(id) \/ TaskFinish(id)

NextRunFair ==
    \/ Construct
    \/ Execute
    \/ Dispatch
    \/ PlainEmit
    \/ PlainFinish
    \/ SwitchSub
    \/ SwitchEmit
    \/ SwitchFinish
    \/ LoopHead
    \/ SeqSub
    \/ SeqEmit
    \/ SeqFinish
    \/ \E id \in DOMAIN tasks : TaskStart(id)
    \/ \E id \in DOMAIN tasks : TaskEmit(id)
    \/ \E id \in DOMAIN tasks : TaskFinish(id)
    \/ CtlWait
    \/ CtlDrain
    \/ CtlResume
    \/ CtlGather
    \/ LoopCond
    \/ LoopSummary

SpecRunFair ==
    /\ InitRunFair
    /\ [][NextRunFair]_vars
    /\ WF_vars(ControllerStep)
    /\ SF_vars(TaskStep)

\* the run has been started: execute() has been called on a built engine
RunStarted == pc = "start"

\* the run has completed: every id of the execution order is Done, every
\* plain node has been called once and every loop has emitted one summary
RunCompleted ==
    /\ pc = "done"
    /\ \A i \in 1..Len(node_order) :
          LET n == node_order[i]
          IN /\ n \in executed_nodes
             /\ NodeConfig(n).type \notin {"loop", "switch"} => Len(Calls(n)) = 1
             /\ NodeConfig(n).type = "loop" =>
                   /\ Len(EventsOf(n)) = 1
                   /\ EventsOf(n)[1].output \in {Summary(k) : k \in 0..MaxIter}

\* the drain loop of a concurrent iteration has nothing left to wait for:
\* every task of the iteration has finished and the queue is empty
DrainIdle ==
    /\ pc \in {"c_wait", "c_drain"}
    /\ \A i \in 1..Len(loop_nodes) : Finished(tasks[<<iteration, i>>])
    /\ queue = <<>>

\* C34: if every node invocation emits finitely many records and raises no
\* fault, every run eventually completes: every id in the execution order
\* reaches Done exactly once and every loop emits its summary event; and in
\* concurrent mode the drain loop exits once all the tasks of the iteration
\* have finished and the queue is empty.
C34_FaultFreeRunCompletes ==
    /\ RunStarted ~> RunCompleted
    /\ DrainIdle ~> (pc = "c_gather")


\* a loop whose condition compares an unset value with an ordering operator
IsUnsetOrderingRun ==
    \E op \in {">", "<", ">=", "<="}, m \in BOOLEAN : config = UnsetCondWorkflow(op, m).config

\* what holds of every fault-free run: it completes unless the evaluation of
\* a loop condition raises, and the drain loop always exits
CompletesUnlessConditionRaises ==
    /\ (RunStarted /\ ~IsUnsetOrderingRun) ~> RunCompleted
    /\ DrainIdle ~> (pc = "c_gather")

====
